---- MODULE Spec2Model ----
(***************************************************************************)
(* envvars-scan: the format scanners, the reconciliation (dedup) step and  *)
(* the comparison step, modelled from the TypeScript sources.              *)
(*                                                                         *)
(* Text is modelled as a sequence of one-character strings, so that the    *)
(* string operations of the code (trim, startsWith, slice, split, the      *)
(* regular expressions) are computed character by character.               *)
(***************************************************************************)
EXTENDS Integers, Sequences, FiniteSets, TLC

VARIABLES
    recResults,    \* output.results of the external tool, read by scan()
    recFilter,     \* options.filterUppercase of scan() (!options.all)
    recOthers,     \* occurrences the format scanners push to allEnvVars
    recScanned,    \* semgrepResult.envVars, the result of scan()
    recInput,      \* allEnvVars, handed to deduplicateResults
    recDeduped,    \* result.envVars, the result of deduplicateResults
    recPc          \* position in run(): "start", "scanned", "deduped"

VARIABLES
    cmpBase,       \* baseResult.envVars
    cmpHead,       \* headResult.envVars
    cmpJson,       \* options.json
    cmpOut,        \* the CompareResult {added, removed, unchanged}
    cmpExit,       \* exit status of the process; -1 while it runs
    cmpPc          \* "start", "compared", "diffed", "failed"

VARIABLES
    subScanner,    \* the sub-scanner at work: "workload", "configmap", "secret"
    subKind,       \* the kind handed to scanK8sWorkload
    subLines,      \* content.split('\n') of the document
    subI,          \* the loop index i: the lines before it are processed
    subState       \* the locals of the sub-scanner and its envVars

VARIABLES
    manContent,    \* content of the YAML file read by scanK8sManifests
    manLines,      \* content.split('\n')
    manI,          \* the loop index i of the document loop
    docStartLine,  \* index of the first line of the current document
    docContent,    \* the text of the current document collected so far
    manScanned,    \* the sub-scanner calls made: kind, content, lineOffset
    manEnvVars,    \* envVars of scanK8sManifests
    manPc          \* "start", "loop", "done", "skipped"

VARIABLES
    fmtScanner,    \* "properties", "dockerfile", "dotenv", "docker-compose"
    fmtLines,      \* content.split('\n') of the file
    fmtI,          \* the loop index i
    fmtEnvVars     \* envVars of the file scanner

VARIABLES
    scnInstalled,  \* the external tool is found in PATH
    scnPathExists, \* the path handed to scan() exists
    scnConfig,     \* .skyhook/envvars-scan.yaml: exists, the patterns it declares
    scnFault,      \* what fails in this execution: "none", "write", "spawn", "parse"
    scnRules,      \* the text of the rules file handed to the tool, if written
    scnTempDir,    \* the transient rules directory: "none", "present", "removed"
    scnSpawned,    \* the external tool has been spawned
    scnPc          \* "start", "written", "returned", "threw"

VARIABLES
    runRepo,       \* options.repo is given
    runKeep,       \* options.keep
    runJson,       \* options.json
    runShowValues, \* options.showValues
    runCloneFails, \* git clone fails in this execution
    runResult,     \* result.envVars, the deduplicated occurrences
    runCloneDir,   \* the cloned repository directory: "none", "present", "removed"
    runPrinted,    \* the values written to the text report, in order
    runPc          \* "start", "ready", "returned", "threw"

VARIABLES
    idDir,         \* the part of the check id before the rule id
    idLang,        \* the language prefix of the rule id, without its hyphen
    idRest,        \* the rule id after its language prefix
    idParsed,      \* what parseCheckId returned
    idPc           \* "start", "done"

VARIABLES
    pfFiles,       \* the files of the directory tree: path and lines
    pfPattern,     \* the number of discovery patterns gone through
    pfEnvVars      \* the list scanPropertyFiles is putting together

recVars == <<recResults, recFilter, recOthers, recScanned, recInput, recDeduped, recPc>>

cmpVars == <<cmpBase, cmpHead, cmpJson, cmpOut, cmpExit, cmpPc>>

subVars == <<subScanner, subKind, subLines, subI, subState>>

manVars == <<manContent, manLines, manI, docStartLine, docContent, manScanned,
             manEnvVars, manPc>>

fmtVars == <<fmtScanner, fmtLines, fmtI, fmtEnvVars>>

scnVars == <<scnInstalled, scnPathExists, scnConfig, scnFault, scnRules, scnTempDir,
             scnSpawned, scnPc>>

runVars == <<runRepo, runKeep, runJson, runShowValues, runCloneFails, runResult,
             runCloneDir, runPrinted, runPc>>

idVars == <<idDir, idLang, idRest, idParsed, idPc>>

pfVars == <<pfFiles, pfPattern, pfEnvVars>>

vars == <<recVars, cmpVars, subVars, manVars, fmtVars, scnVars, runVars, idVars, pfVars>>

-----------------------------------------------------------------------------
(* Bounds of the model *)

MaxOcc == 3        \* longest list of occurrences handed to a reconciliation
MaxCmp == 2        \* longest list of occurrences of one side of a comparison
MaxDocLines == 4   \* most lines of a document handed to a sub-scanner
MaxFileLines == 5  \* most lines of a manifest file
MaxFmtLines == 2   \* most lines of a property, Dockerfile, .env or compose file

-----------------------------------------------------------------------------
(* JavaScript values and strings *)

\* the JavaScript value `undefined` (an absent optional field); it is a
\* sequence, so that it can be compared with strings, and no string equals it
undefined == <<"undefined">>

Truthy(v) == v # undefined /\ v # <<>>

IsSpace(c) == c \in {" ", "\t", "\n", "\r"}

IsUpper(c) == c \in {"A","B","C","D","E","F","G","H","I","J","K","L","M",
                     "N","O","P","Q","R","S","T","U","V","W","X","Y","Z"}

IsLower(c) == c \in {"a","b","c","d","e","f","g","h","i","j","k","l","m",
                     "n","o","p","q","r","s","t","u","v","w","x","y","z"}

IsDigit(c) == c \in {"0","1","2","3","4","5","6","7","8","9"}

\* \w of a regular expression
IsWord(c) == IsUpper(c) \/ IsLower(c) \/ IsDigit(c) \/ c = "_"

\* s.slice(a, b) with 0-based a (inclusive) and b (exclusive), both already
\* resolved to non-negative positions
Slice(s, a, b) == IF a >= b \/ a >= Len(s) THEN <<>>
                  ELSE SubSeq(s, a + 1, IF b > Len(s) THEN Len(s) ELSE b)

SliceFrom(s, a) == Slice(s, a, Len(s))

\* s.startsWith(p), and s.startsWith(p, at) with a 0-based position
StartsWithAt(s, p, at) ==
    /\ at + Len(p) <= Len(s)
    /\ \A k \in 1..Len(p) : s[at + k] = p[k]

StartsWith(s, p) == StartsWithAt(s, p, 0)

EndsWith(s, p) == Len(p) <= Len(s) /\ StartsWithAt(s, p, Len(s) - Len(p))

\* s.indexOf(p): the least 0-based position of p in s, or -1
RECURSIVE IndexFrom(_, _, _)
IndexFrom(s, p, k) ==
    IF k + Len(p) > Len(s) THEN -1
    ELSE IF StartsWithAt(s, p, k) THEN k
    ELSE IndexFrom(s, p, k + 1)

IndexOf(s, p) == IndexFrom(s, p, 0)

\* s.lastIndexOf(p): the greatest 0-based position of p in s, or -1
RECURSIVE LastIndexFrom(_, _, _)
LastIndexFrom(s, p, k) ==
    IF k < 0 THEN -1
    ELSE IF StartsWithAt(s, p, k) THEN k
    ELSE LastIndexFrom(s, p, k - 1)

LastIndexOf(s, p) == LastIndexFrom(s, p, Len(s) - Len(p))

Includes(s, p) == IndexOf(s, p) # -1

\* s.trimStart(), s.trimEnd(), s.trim()
RECURSIVE TrimStart(_)
TrimStart(s) == IF s # <<>> /\ IsSpace(Head(s)) THEN TrimStart(Tail(s)) ELSE s

RECURSIVE TrimEnd(_)
TrimEnd(s) == IF s # <<>> /\ IsSpace(s[Len(s)])
              THEN TrimEnd(SubSeq(s, 1, Len(s) - 1)) ELSE s

Trim(s) == TrimEnd(TrimStart(s))

\* s.split(sep) for a non-empty separator: the pieces between the occurrences
\* of sep, left to right
RECURSIVE Split(_, _)
Split(s, sep) ==
    LET k == IndexOf(s, sep)
    IN  IF k = -1 THEN <<s>>
        ELSE <<Slice(s, 0, k)>> \o Split(SliceFrom(s, k + Len(sep)), sep)

\* parts.join(sep)
RECURSIVE Join(_, _)
Join(parts, sep) ==
    IF parts = <<>> THEN <<>>
    ELSE IF Len(parts) = 1 THEN parts[1]
    ELSE parts[1] \o sep \o Join(Tail(parts), sep)

\* String(n) for a non-negative integer: its decimal digits
Digit(d) == CASE d = 0 -> "0" [] d = 1 -> "1" [] d = 2 -> "2" [] d = 3 -> "3"
              [] d = 4 -> "4" [] d = 5 -> "5" [] d = 6 -> "6" [] d = 7 -> "7"
              [] d = 8 -> "8" [] d = 9 -> "9"

RECURSIVE NumStr(_)
NumStr(n) == IF n < 10 THEN <<Digit(n)>> ELSE NumStr(n \div 10) \o <<Digit(n % 10)>>

\* /^[A-Z][A-Z0-9_]*$/.test(s)
IsUpperName(s) ==
    /\ s # <<>>
    /\ IsUpper(s[1])
    /\ \A k \in 2..Len(s) : IsUpper(s[k]) \/ IsDigit(s[k]) \/ s[k] = "_"

\* the elements of a sequence, and the sequences that order a finite set
Range(seq) == {seq[k] : k \in 1..Len(seq)}

SeqsUpTo(S, n) == UNION {[1..m -> S] : m \in 0..n}

\* the permutations of the positions 1..n
Perms(n) == {p \in [1..n -> 1..n] : \A a, b \in 1..n : p[a] = p[b] => a = b}

Permuted(seq, p) == [k \in 1..Len(seq) |-> seq[p[k]]]

-----------------------------------------------------------------------------
(* Occurrences (EnvVar) and the identity key *)

\* valueSource and isDefault are kept as plain strings; "undefined" is the
\* absent field
noSource == "undefined"

noDefault == "undefined"

JsBool(b) == IF b THEN "true" ELSE "false"

\* name, file, language, pattern and value are texts; value may be undefined
EnvVar(name, file, line, language, pattern, value, valueSource, isDefault) ==
    [name |-> name, file |-> file, line |-> line, language |-> language,
     pattern |-> pattern, value |-> value, valueSource |-> valueSource,
     isDefault |-> isDefault]

\* the template literal `${name}:${file}:${line}`
Key(name, file, line) == name \o <<":">> \o file \o <<":">> \o NumStr(line)

EnvVarKey(ev) == Key(ev.name, ev.file, ev.line)

-----------------------------------------------------------------------------
(* deduplicateResults of the CLI *)

\* a deduplication whose key leaves the line out
RECURSIVE DedupLoopNoLine(_, _, _)
DedupLoopNoLine(envVars, seen, deduped) ==
    IF envVars = <<>> THEN deduped
    ELSE LET ev  == Head(envVars)
             key == ev.name \o <<":">> \o ev.file
         IN  IF key \notin seen
             THEN DedupLoopNoLine(Tail(envVars), seen \cup {key}, Append(deduped, ev))
             ELSE DedupLoopNoLine(Tail(envVars), seen, deduped)

\* a deduplication that never records the key it has seen
RECURSIVE DedupLoopNoAdd(_, _, _)
DedupLoopNoAdd(envVars, seen, deduped) ==
    IF envVars = <<>> THEN deduped
    ELSE LET ev  == Head(envVars)
             key == EnvVarKey(ev)
         IN  IF key \notin seen
             THEN DedupLoopNoAdd(Tail(envVars), seen, Append(deduped, ev))
             ELSE DedupLoopNoAdd(Tail(envVars), seen, deduped)

\* the for loop of deduplicateResults over what is left of result.envVars
RECURSIVE DedupLoop(_, _, _)
DedupLoop(envVars, seen, deduped) ==
    IF envVars = <<>> THEN deduped
    ELSE LET ev  == Head(envVars)
             key == EnvVarKey(ev)
         IN  IF key \notin seen
             THEN DedupLoop(Tail(envVars), seen \cup {key}, Append(deduped, ev))
             ELSE DedupLoop(Tail(envVars), seen, deduped)

DeduplicateResultsNoAdd(envVars) == DedupLoopNoAdd(envVars, {}, <<>>)

DeduplicateResultsNoLine(envVars) == DedupLoopNoLine(envVars, {}, <<>>)

DeduplicateResults(envVars) == DedupLoop(envVars, {}, <<>>)

-----------------------------------------------------------------------------
(* scan(): the adapter of the external tool's findings *)

S_sep == <<"|", "|", "|">>
S_custom == <<"c","u","s","t","o","m","-">>
S_StringOpen == <<"S","t","r","i","n","g","(">>
S_to_string == <<".","t","o","_","s","t","r","i","n","g","(",")">>
S_to_owned == <<".","t","o","_","o","w","n","e","d","(",")">>

\* value.slice(1, -1) and value.slice(7, -1)
SliceInner(s, a) == Slice(s, a, Len(s) - 1)

\* the backtick character, which a TLA+ string literal cannot hold
Backtick == "backtick"

Quoted(s, q) == StartsWith(s, <<q>>) /\ EndsWith(s, <<q>>)

\* value.slice(1, -1) when value starts and ends with ", or with '
StripQuotes(s) == IF Quoted(s, "\"") \/ Quoted(s, "'") THEN SliceInner(s, 1) ELSE s

cleanDefaultValue(value) ==
    LET c0 == Trim(value)
        c1 == StripQuotes(c0)
        c2 == IF Quoted(c1, Backtick) THEN SliceInner(c1, 1) ELSE c1
        c3 == IF StartsWith(c2, S_StringOpen) /\ EndsWith(c2, <<")">>)
              THEN SliceInner(c2, 7) ELSE c2
    IN  IF EndsWith(c3, S_to_string) THEN Slice(c3, 0, Len(c3) - Len(S_to_string))
        ELSE IF EndsWith(c3, S_to_owned) THEN Slice(c3, 0, Len(c3) - Len(S_to_owned))
        ELSE c3

langPrefixes == <<
    <<"g","o","-">>, <<"j","s","-">>, <<"p","y","t","h","o","n","-">>,
    <<"j","a","v","a","-">>, <<"r","u","b","y","-">>, <<"r","u","s","t","-">>,
    <<"c","s","h","a","r","p","-">>, <<"p","h","p","-">>,
    <<"k","o","t","l","i","n","-">>, <<"s","c","a","l","a","-">>,
    <<"p","r","o","p","e","r","t","i","e","s","-">> >>

\* langMap[lang] || lang
langMap(lang) == IF lang = <<"j","s">> THEN <<"j","a","v","a","s","c","r","i","p","t">>
                 ELSE lang

\* the for loop over langPrefixes: the first prefix of the list that occurs in
\* checkId decides, cut at its last occurrence
RECURSIVE RuleIdFrom(_, _)
RuleIdFrom(checkId, k) ==
    IF k > Len(langPrefixes) THEN checkId
    ELSE LET idx == LastIndexOf(checkId, langPrefixes[k])
         IN  IF idx # -1 THEN SliceFrom(checkId, idx) ELSE RuleIdFrom(checkId, k + 1)

parseCheckId(checkId) ==
    IF Includes(checkId, S_custom)
    THEN [language |-> <<"c","u","s","t","o","m">>,
          pattern  |-> SliceFrom(checkId, LastIndexOf(checkId, S_custom))]
    ELSE LET ruleId == RuleIdFrom(checkId, 1)
             parts  == Split(ruleId, <<"-">>)
         IN  IF Len(parts) < 2
             THEN [language |-> <<"u","n","k","n","o","w","n">>, pattern |-> ruleId]
             ELSE [language |-> langMap(parts[1]),
                   pattern  |-> Join(Tail(parts), <<".">>)]

\* envVarName and defaultValue of one finding's message
MessageName(message) ==
    IF Includes(message, S_sep) THEN Split(message, S_sep)[1] ELSE message

MessageDefault(message) ==
    IF Includes(message, S_sep) THEN cleanDefaultValue(Split(message, S_sep)[2])
    ELSE undefined

\* the `continue` of the uppercase filter
FilteredOut(r, filterUppercase) ==
    filterUppercase /\ ~IsUpperName(MessageName(r.extra.message))

\* the envVar object built from one finding
ResultEnvVar(r) ==
    LET defaultValue == MessageDefault(r.extra.message)
        parsed       == parseCheckId(r.check_id)
    IN  EnvVar(MessageName(r.extra.message), r.path, r.start.line,
               parsed.language, parsed.pattern, defaultValue,
               IF Truthy(defaultValue) THEN "code-default" ELSE noSource,
               JsBool(Truthy(defaultValue)))

\* resultMap.set(key, entry): a Map keeps the position of a key it already has
MapSet(map, key, entry) ==
    IF \E k \in 1..Len(map) : map[k].key = key
    THEN [k \in 1..Len(map) |-> IF map[k].key = key THEN entry ELSE map[k]]
    ELSE Append(map, entry)

MapHas(map, key) == \E k \in 1..Len(map) : map[k].key = key

MapGet(map, key) == map[CHOOSE k \in 1..Len(map) : map[k].key = key]

\* a fold that lets the last finding of a key win
RECURSIVE ScanLoopLastWins(_, _, _)
ScanLoopLastWins(results, filterUppercase, resultMap) ==
    IF results = <<>> THEN resultMap
    ELSE LET r == Head(results)
             envVar == ResultEnvVar(r)
             key == EnvVarKey(envVar)
         IN  IF FilteredOut(r, filterUppercase)
             THEN ScanLoopLastWins(Tail(results), filterUppercase, resultMap)
             ELSE ScanLoopLastWins(Tail(results), filterUppercase,
                      MapSet(resultMap, key,
                             [key |-> key, envVar |-> envVar,
                              hasDefault |-> Truthy(envVar.value)]))

\* a fold whose key leaves the line out
RECURSIVE ScanLoopNoLine(_, _, _)
ScanLoopNoLine(results, filterUppercase, resultMap) ==
    IF results = <<>> THEN resultMap
    ELSE LET r == Head(results)
             envVar == ResultEnvVar(r)
             key == envVar.name \o <<":">> \o envVar.file
             hasDefault == Truthy(envVar.value)
             entry == [key |-> key, envVar |-> envVar, hasDefault |-> hasDefault]
         IN  IF FilteredOut(r, filterUppercase)
             THEN ScanLoopNoLine(Tail(results), filterUppercase, resultMap)
             ELSE IF ~MapHas(resultMap, key)
             THEN ScanLoopNoLine(Tail(results), filterUppercase,
                                 MapSet(resultMap, key, entry))
             ELSE IF hasDefault /\ ~MapGet(resultMap, key).hasDefault
             THEN ScanLoopNoLine(Tail(results), filterUppercase,
                                 MapSet(resultMap, key, entry))
             ELSE ScanLoopNoLine(Tail(results), filterUppercase, resultMap)

\* the for loop of scan() over what is left of output.results
RECURSIVE ScanLoop(_, _, _)
ScanLoop(results, filterUppercase, resultMap) ==
    IF results = <<>> THEN resultMap
    ELSE LET r == Head(results)
             envVar == ResultEnvVar(r)
             key == EnvVarKey(envVar)
             hasDefault == Truthy(envVar.value)
             entry == [key |-> key, envVar |-> envVar, hasDefault |-> hasDefault]
         IN  IF FilteredOut(r, filterUppercase)
             THEN ScanLoop(Tail(results), filterUppercase, resultMap)
             ELSE IF ~MapHas(resultMap, key)
             THEN ScanLoop(Tail(results), filterUppercase, MapSet(resultMap, key, entry))
             ELSE IF hasDefault /\ ~MapGet(resultMap, key).hasDefault
             THEN ScanLoop(Tail(results), filterUppercase, MapSet(resultMap, key, entry))
             ELSE ScanLoop(Tail(results), filterUppercase, resultMap)

MapEnvVars(resultMap) == [k \in 1..Len(resultMap) |-> resultMap[k].envVar]

ScanResultsNoLine(results, filterUppercase) ==
    MapEnvVars(ScanLoopNoLine(results, filterUppercase, <<>>))

ScanResultsLastWins(results, filterUppercase) ==
    MapEnvVars(ScanLoopLastWins(results, filterUppercase, <<>>))

\* result.envVars of scan(): the values of resultMap in insertion order
ScanResults(results, filterUppercase) ==
    MapEnvVars(ScanLoop(results, filterUppercase, <<>>))

-----------------------------------------------------------------------------
(* Reconciliation: run() collects scan()'s occurrences and the format       *)
(* scanners' occurrences into allEnvVars and deduplicates them              *)

Finding(check_id, path, line, message) ==
    [check_id |-> check_id, path |-> path, start |-> [line |-> line],
     extra |-> [message |-> message]]

Id_js_env == <<"r",".","j","s","-","e","n","v">>
Id_js_default == <<"r",".","j","s","-","e","n","v","-","d","e","f","a","u","l","t">>
Id_py_default == <<"r",".","p","y","t","h","o","n","-","g","e","t","e","n","v">>

File_c == <<"c">>
File_bc == <<"b",":","c">>

\* findings the external tool can report
Findings == {
    Finding(Id_js_env, File_c, 1, <<"A">>),
    Finding(Id_js_default, File_c, 1, <<"A","|","|","|","'","x","'">>),
    Finding(Id_py_default, File_c, 1, <<"A","|","|","|","y">>),
    Finding(Id_js_env, File_c, 2, <<"A">>),
    Finding(Id_js_default, File_c, 1, <<"A","|","|","|","'","'">>),
    Finding(Id_js_default, File_c, 1, <<"A",":","b","|","|","|","x">>) }

\* occurrences the format scanners can report
L_dotenv == <<"d","o","t","e","n","v">>
L_dockerfile == <<"d","o","c","k","e","r","f","i","l","e">>
P_definition == <<"d","e","f","i","n","i","t","i","o","n">>
P_ARG == <<"A","R","G">>
P_ENV == <<"E","N","V">>

OtherOccurrences == {
    EnvVar(<<"A">>, File_c, 1, L_dotenv, P_definition, <<"x">>, "dotenv", noDefault),
    EnvVar(<<"A">>, File_c, 1, L_dockerfile, P_ARG, undefined, noSource, "false"),
    EnvVar(<<"A">>, File_c, 2, L_dockerfile, P_ARG, undefined, noSource, "false"),
    EnvVar(<<"A">>, File_bc, 1, L_dockerfile, P_ENV, <<"x">>, "dockerfile-env", noDefault),
    EnvVar(<<"a">>, File_c, 1, L_dockerfile, P_ARG, undefined, noSource, "false") }

\* vars.filter((v) => /^[A-Z][A-Z0-9_]*$/.test(v.name)), applied unless --all
FilterUpper(envVars, all) ==
    IF all THEN envVars ELSE SelectSeq(envVars, LAMBDA v : IsUpperName(v.name))

RecIdle ==
    /\ recResults = <<>>
    /\ recOthers = <<>>
    /\ recFilter = TRUE
    /\ recScanned = <<>>
    /\ recInput = <<>>
    /\ recDeduped = <<>>
    /\ recPc = "idle"

CmpIdle ==
    /\ cmpBase = <<>>
    /\ cmpHead = <<>>
    /\ cmpJson = FALSE
    /\ cmpOut = [added |-> <<>>, removed |-> <<>>, unchanged |-> <<>>]
    /\ cmpExit = -1
    /\ cmpPc = "idle"

\* the sub-scanner locals before the first line
K8sLocals ==
    [inEnvSection |-> FALSE, currentIndent |-> 0, inDataSection |-> FALSE,
     inStringDataSection |-> FALSE, dataIndent |-> 0, envVars |-> <<>>]

SubIdle ==
    /\ subScanner = "idle"
    /\ subKind = <<>>
    /\ subLines = <<>>
    /\ subI = 0
    /\ subState = K8sLocals

ManIdle ==
    /\ manContent = <<>>
    /\ manLines = <<>>
    /\ manI = 0
    /\ docStartLine = 0
    /\ docContent = <<>>
    /\ manScanned = <<>>
    /\ manEnvVars = <<>>
    /\ manPc = "idle"

FmtIdle ==
    /\ fmtScanner = "idle"
    /\ fmtLines = <<>>
    /\ fmtI = 0
    /\ fmtEnvVars = <<>>

IdIdle ==
    /\ idDir = <<>>
    /\ idLang = <<>>
    /\ idRest = <<>>
    /\ idParsed = [language |-> <<>>, pattern |-> <<>>]
    /\ idPc = "idle"

PfIdle ==
    /\ pfFiles = <<>>
    /\ pfPattern = 0
    /\ pfEnvVars = <<>>

ScnIdle ==
    /\ scnInstalled = TRUE
    /\ scnPathExists = TRUE
    /\ scnConfig = [exists |-> FALSE, customPatterns |-> <<>>]
    /\ scnFault = "none"
    /\ scnRules = undefined
    /\ scnTempDir = "none"
    /\ scnSpawned = FALSE
    /\ scnPc = "idle"

RunIdle ==
    /\ runRepo = FALSE
    /\ runKeep = FALSE
    /\ runJson = FALSE
    /\ runShowValues = FALSE
    /\ runCloneFails = FALSE
    /\ runResult = <<>>
    /\ runCloneDir = "none"
    /\ runPrinted = <<>>
    /\ runPc = "idle"

InitReconcile ==
    /\ CmpIdle /\ SubIdle /\ ManIdle /\ FmtIdle /\ ScnIdle /\ RunIdle /\ IdIdle /\ PfIdle
    /\ \E n \in 0..MaxOcc :
          /\ recResults \in [1..n -> Findings]
          /\ recOthers \in SeqsUpTo(OtherOccurrences, MaxOcc - n)
    /\ recFilter \in BOOLEAN
    /\ recScanned = <<>>
    /\ recInput = <<>>
    /\ recDeduped = <<>>
    /\ recPc = "start"

\* run(): semgrep is installed and enabled, scan() returns its occurrences
RunSemgrepScan ==
    /\ recPc = "start"
    /\ recScanned' = ScanResults(recResults, recFilter)
    /\ recPc' = "scanned"
    /\ UNCHANGED <<recResults, recFilter, recOthers, recInput, recDeduped>>
    /\ UNCHANGED <<cmpVars, subVars, manVars, fmtVars, scnVars, runVars, idVars, pfVars>>

\* run(): --no-semgrep, or semgrep is not installed: no findings exist
SkipSemgrepScan ==
    /\ recPc = "start"
    /\ recResults' = <<>>
    /\ recScanned' = <<>>
    /\ recPc' = "scanned"
    /\ UNCHANGED <<recFilter, recOthers, recInput, recDeduped>>
    /\ UNCHANGED <<cmpVars, subVars, manVars, fmtVars, scnVars, runVars, idVars, pfVars>>

\* run(): the format scanners' occurrences are pushed and the list deduplicated
Deduplicate ==
    /\ recPc = "scanned"
    /\ recInput' = recScanned \o FilterUpper(recOthers, ~recFilter)
    /\ recDeduped' = DeduplicateResults(recInput')
    /\ recPc' = "deduped"
    /\ UNCHANGED <<recResults, recFilter, recOthers, recScanned>>
    /\ UNCHANGED <<cmpVars, subVars, manVars, fmtVars, scnVars, runVars, idVars, pfVars>>

NextReconcile == RunSemgrepScan \/ SkipSemgrepScan \/ Deduplicate

SpecReconcile == InitReconcile /\ [][NextReconcile]_vars

-----------------------------------------------------------------------------
(* Claims about the reconciliation *)

SameTriple(a, b) == a.name = b.name /\ a.file = b.file /\ a.line = b.line

\* an occurrence carries a value: a non-empty string, the test the code itself
\* applies (`!!defaultValue`, `value || undefined`)
HasValue(ev) == Truthy(ev.value)

\* the occurrences scan() builds from the findings it does not filter out
BuiltEnvVars(results, filterUppercase) ==
    LET kept == SelectSeq(results, LAMBDA r : ~FilteredOut(r, filterUppercase))
    IN  [k \in 1..Len(kept) |-> ResultEnvVar(kept[k])]

\* every triple of `input` that some occurrence carries a value for is
\* retained in `output`, and retained with a value
ValuePreferred(input, output) ==
    \A i \in 1..Len(input) :
        HasValue(input[i]) =>
            /\ \E j \in 1..Len(output) : SameTriple(output[j], input[i])
            /\ \A j \in 1..Len(output) :
                   SameTriple(output[j], input[i]) => HasValue(output[j])

\* C1: whenever some occurrence of a key (name, file, line) handed to a
\* reconciliation (deduplicateResults, the resultMap fold of scan()) carries a
\* value, the occurrence retained for that key carries a value, whichever of
\* the valued and the valueless occurrence came first.
C1_ValuedOccurrenceWins ==
    /\ recPc = "deduped" => ValuePreferred(recInput, recDeduped)
    /\ recPc = "scanned" =>
           ValuePreferred(BuiltEnvVars(recResults, recFilter), recScanned)

KeysOf(envVars) == {EnvVarKey(envVars[k]) : k \in 1..Len(envVars)}

KeysWithDefault(envVars) ==
    {<<EnvVarKey(envVars[k]), Truthy(envVars[k].value)>> : k \in 1..Len(envVars)}

OnePerKey(envVars) ==
    \A a, b \in 1..Len(envVars) :
        EnvVarKey(envVars[a]) = EnvVarKey(envVars[b]) => a = b

C3_DedupIdempotent ==
    recPc = "deduped" =>
        /\ DeduplicateResults(recDeduped) = recDeduped
        /\ \A a, b \in 1..Len(recDeduped) :
               SameTriple(recDeduped[a], recDeduped[b]) => a = b

\* deduplicateResults has dropped a duplicate of a key
C3_DuplicateDropped ==
    /\ recPc = "deduped"
    /\ Len(recDeduped) < Len(recInput)
    /\ Len(recDeduped) >= 2

-----------------------------------------------------------------------------
(* The comparison: runCompare and the comparison of runDiff *)

\* the printable ASCII characters in the order of their code units 32..126
Ascii == <<
    " ", "!", "\"", "#", "$", "%", "&", "'", "(", ")", "*", "+", ",", "-", ".", "/",
    "0", "1", "2", "3", "4", "5", "6", "7", "8", "9", ":", ";", "<", "=", ">", "?",
    "@", "A", "B", "C", "D", "E", "F", "G", "H", "I", "J", "K", "L", "M", "N", "O",
    "P", "Q", "R", "S", "T", "U", "V", "W", "X", "Y", "Z", "[", "\\", "]", "^", "_",
    Backtick, "a", "b", "c", "d", "e", "f", "g", "h", "i", "j", "k", "l", "m", "n", "o",
    "p", "q", "r", "s", "t", "u", "v", "w", "x", "y", "z", "{", "|", "}", "~" >>

\* the UTF-16 code unit of a character
CodeUnit(c) == 31 + CHOOSE k \in 1..Len(Ascii) : Ascii[k] = c

\* a < b as Array.prototype.sort() compares strings without a comparator:
\* by code units, a proper prefix first
RECURSIVE StrLess(_, _)
StrLess(a, b) ==
    IF b = <<>> THEN FALSE
    ELSE IF a = <<>> THEN TRUE
    ELSE IF Head(a) = Head(b) THEN StrLess(Tail(a), Tail(b))
    ELSE CodeUnit(Head(a)) < CodeUnit(Head(b))

\* names.sort(): the sorted sequence is built by insertion
RECURSIVE SortInsert(_, _)
SortInsert(sorted, x) ==
    IF sorted = <<>> THEN <<x>>
    ELSE IF StrLess(x, Head(sorted)) THEN <<x>> \o sorted
    ELSE <<Head(sorted)>> \o SortInsert(Tail(sorted), x)

RECURSIVE Sort(_)
Sort(names) ==
    IF names = <<>> THEN <<>>
    ELSE SortInsert(Sort(SubSeq(names, 1, Len(names) - 1)), names[Len(names)])

\* [...new Set(envVars.map(v => v.name))]: the distinct names in the order of
\* their first occurrence
RECURSIVE NameSet(_, _)
NameSet(envVars, names) ==
    IF envVars = <<>> THEN names
    ELSE IF \E k \in 1..Len(names) : names[k] = Head(envVars).name
    THEN NameSet(Tail(envVars), names)
    ELSE NameSet(Tail(envVars), Append(names, Head(envVars).name))

SetHas(names, n) == \E k \in 1..Len(names) : names[k] = n

\* a comparison that leaves the lists in the order of the sets
CompareNamesUnsorted(baseEnvVars, headEnvVars) ==
    LET baseNames == NameSet(baseEnvVars, <<>>)
        headNames == NameSet(headEnvVars, <<>>)
    IN  [added     |-> SelectSeq(headNames, LAMBDA n : ~SetHas(baseNames, n)),
         removed   |-> SelectSeq(baseNames, LAMBDA n : ~SetHas(headNames, n)),
         unchanged |-> SelectSeq(headNames, LAMBDA n : SetHas(baseNames, n))]

\* a comparison by identity key instead of by name
CompareNamesByKey(baseEnvVars, headEnvVars) ==
    LET InBase(n) == \E i \in 1..Len(baseEnvVars), j \in 1..Len(headEnvVars) :
                        /\ headEnvVars[j].name = n
                        /\ EnvVarKey(baseEnvVars[i]) = EnvVarKey(headEnvVars[j])
        InHead(n) == \E i \in 1..Len(baseEnvVars), j \in 1..Len(headEnvVars) :
                        /\ baseEnvVars[i].name = n
                        /\ EnvVarKey(baseEnvVars[i]) = EnvVarKey(headEnvVars[j])
        baseNames == NameSet(baseEnvVars, <<>>)
        headNames == NameSet(headEnvVars, <<>>)
    IN  [added     |-> Sort(SelectSeq(headNames, LAMBDA n : ~InBase(n))),
         removed   |-> Sort(SelectSeq(baseNames, LAMBDA n : ~InHead(n))),
         unchanged |-> Sort(SelectSeq(headNames, LAMBDA n : InBase(n)))]

\* runCompare: baseNames, headNames, added, removed, unchanged
CompareNames(baseEnvVars, headEnvVars) ==
    LET baseNames == NameSet(baseEnvVars, <<>>)
        headNames == NameSet(headEnvVars, <<>>)
    IN  [added     |-> Sort(SelectSeq(headNames, LAMBDA n : ~SetHas(baseNames, n))),
         removed   |-> Sort(SelectSeq(baseNames, LAMBDA n : ~SetHas(headNames, n))),
         unchanged |-> Sort(SelectSeq(headNames, LAMBDA n : SetHas(baseNames, n)))]

\* runDiff: baseNames, headNames, added, removed, unchanged
DiffNames(baseEnvVars, headEnvVars) ==
    LET baseNames == NameSet(baseEnvVars, <<>>)
        headNames == NameSet(headEnvVars, <<>>)
    IN  [added     |-> Sort(SelectSeq(headNames, LAMBDA n : ~SetHas(baseNames, n))),
         removed   |-> Sort(SelectSeq(baseNames, LAMBDA n : ~SetHas(headNames, n))),
         unchanged |-> Sort(SelectSeq(headNames, LAMBDA n : SetHas(baseNames, n)))]

L_js == <<"j","a","v","a","s","c","r","i","p","t">>
P_env == <<"e","n","v">>

\* occurrences of the two sides of a comparison
CmpOccurrences == {
    EnvVar(<<"A">>, File_c, 1, L_js, P_env, undefined, noSource, "false"),
    EnvVar(<<"A">>, File_bc, 2, L_dotenv, P_definition, <<"x">>, "dotenv", noDefault),
    EnvVar(<<"B">>, File_c, 1, L_js, P_env, undefined, noSource, "false"),
    EnvVar(<<"A","B">>, File_c, 1, L_js, P_env, undefined, noSource, "false"),
    EnvVar(<<"A","_">>, File_c, 1, L_js, P_env, undefined, noSource, "false"),
    EnvVar(<<"a">>, File_c, 1, L_js, P_env, undefined, noSource, "false") }

InitCompare ==
    /\ RecIdle /\ SubIdle /\ ManIdle /\ FmtIdle /\ ScnIdle /\ RunIdle /\ IdIdle /\ PfIdle
    /\ cmpBase \in SeqsUpTo(CmpOccurrences, MaxCmp)
    /\ cmpHead \in SeqsUpTo(CmpOccurrences, MaxCmp)
    /\ cmpJson \in BOOLEAN
    /\ cmpOut = [added |-> <<>>, removed |-> <<>>, unchanged |-> <<>>]
    /\ cmpExit = -1
    /\ cmpPc = "start"

\* the `compare` subcommand with both files present: runCompare computes the
\* result, prints it, and exits with 1 after the text report of a change
RunCompare ==
    /\ cmpPc = "start"
    /\ cmpOut' = CompareNames(cmpBase, cmpHead)
    /\ cmpExit' = IF cmpJson THEN 0
                  ELSE IF Len(cmpOut'.added) > 0 \/ Len(cmpOut'.removed) > 0 THEN 1
                  ELSE 0
    /\ cmpPc' = "compared"
    /\ UNCHANGED <<cmpBase, cmpHead, cmpJson>>
    /\ UNCHANGED <<recVars, subVars, manVars, fmtVars, scnVars, runVars, idVars, pfVars>>

\* the `compare` subcommand with a file missing: runCompare throws, the
\* action handler reports the error and exits with 1
RunCompareFileNotFound ==
    /\ cmpPc = "start"
    /\ cmpExit' = 1
    /\ cmpPc' = "failed"
    /\ UNCHANGED <<cmpBase, cmpHead, cmpJson, cmpOut>>
    /\ UNCHANGED <<recVars, subVars, manVars, fmtVars, scnVars, runVars, idVars, pfVars>>

\* run() with --diff: runDiff scans both states (scanPath deduplicates each),
\* compares them, prints the result and returns
RunDiff ==
    /\ cmpPc = "start"
    /\ cmpOut' = DiffNames(DeduplicateResults(cmpBase), DeduplicateResults(cmpHead))
    /\ cmpExit' = 0
    /\ cmpPc' = "diffed"
    /\ UNCHANGED <<cmpBase, cmpHead, cmpJson>>
    /\ UNCHANGED <<recVars, subVars, manVars, fmtVars, scnVars, runVars, idVars, pfVars>>

\* run() with --diff outside a git repository, with an unknown ref, or when
\* the worktree cannot be created: runDiff throws, the handler exits with 1
RunDiffGitFailure ==
    /\ cmpPc = "start"
    /\ cmpExit' = 1
    /\ cmpPc' = "failed"
    /\ UNCHANGED <<cmpBase, cmpHead, cmpJson, cmpOut>>
    /\ UNCHANGED <<recVars, subVars, manVars, fmtVars, scnVars, runVars, idVars, pfVars>>

NextCompare == RunCompare \/ RunCompareFileNotFound \/ RunDiff \/ RunDiffGitFailure

SpecCompare == InitCompare /\ [][NextCompare]_vars

-----------------------------------------------------------------------------
(* Claims about the comparison *)

NamesOf(envVars) == {envVars[k].name : k \in 1..Len(envVars)}

NoDuplicates(seq) == \A a, b \in 1..Len(seq) : seq[a] = seq[b] => a = b

\* ascending in code-unit order
Ascending(seq) == \A a, b \in 1..Len(seq) : a < b => StrLess(seq[a], seq[b])

\* C4: runCompare and runDiff compute added = names(H) \ names(B),
\* removed = names(B) \ names(H), unchanged = names(H) \cap names(B); the
\* three lists are pairwise disjoint, hold no duplicates, together cover
\* names(B) \cup names(H), and each is sorted ascending.
C4_CompareResult ==
    cmpPc \in {"compared", "diffed"} =>
        LET B == NamesOf(cmpBase)
            H == NamesOf(cmpHead)
            A == Range(cmpOut.added)
            R == Range(cmpOut.removed)
            U == Range(cmpOut.unchanged)
        IN  /\ A = H \ B
            /\ R = B \ H
            /\ U = H \cap B
            /\ A \cap R = {} /\ A \cap U = {} /\ R \cap U = {}
            /\ A \cup R \cup U = B \cup H
            /\ \A l \in {cmpOut.added, cmpOut.removed, cmpOut.unchanged} :
                   NoDuplicates(l) /\ Ascending(l)

\* a comparison whose three lists are all non-empty, one of them holding
\* two names that the sets hold in descending order
C4_AllThreeKinds ==
    /\ cmpPc \in {"compared", "diffed"}
    /\ cmpOut.added # <<>>
    /\ cmpOut.removed # <<>>
    /\ cmpOut.unchanged # <<>>
    /\ \E a, b \in 1..Len(cmpHead) :
           /\ a < b
           /\ StrLess(cmpHead[b].name, cmpHead[a].name)
           /\ {cmpHead[a].name, cmpHead[b].name} \subseteq
                  Range(cmpOut.added) \cup Range(cmpOut.unchanged)

\* C5: the comparison is by name only: two sides with the same set of
\* distinct names (whatever their files, lines, values and numbers of
\* occurrences) compare as added = [], removed = [], unchanged = the sorted
\* distinct names.
C5_NameOnly ==
    (cmpPc \in {"compared", "diffed"} /\ NamesOf(cmpBase) = NamesOf(cmpHead)) =>
        /\ cmpOut.added = <<>>
        /\ cmpOut.removed = <<>>
        /\ Range(cmpOut.unchanged) = NamesOf(cmpBase)
        /\ Len(cmpOut.unchanged) = Cardinality(NamesOf(cmpBase))
        /\ Ascending(cmpOut.unchanged)

\* two sides with the same names whose occurrences differ in file, line,
\* value and number have been compared
C5_SameNamesOtherPlaces ==
    /\ cmpPc \in {"compared", "diffed"}
    /\ NamesOf(cmpBase) = NamesOf(cmpHead)
    /\ Len(cmpBase) # Len(cmpHead)
    /\ \E i \in 1..Len(cmpBase), j \in 1..Len(cmpHead) :
           /\ cmpBase[i].name = cmpHead[j].name
           /\ cmpBase[i].file # cmpHead[j].file
           /\ cmpBase[i].line # cmpHead[j].line
           /\ cmpBase[i].value # cmpHead[j].value

-----------------------------------------------------------------------------
(* The Kubernetes sub-scanners: scanK8sWorkload, scanConfigMap, scanSecret *)

S_env == <<"e","n","v",":">>
S_data == <<"d","a","t","a",":">>
S_stringData == <<"s","t","r","i","n","g","D","a","t","a",":">>
S_dash_name == <<"-"," ","n","a","m","e",":">>
S_value == <<"v","a","l","u","e",":">>
L_kubernetes == <<"k","u","b","e","r","n","e","t","e","s">>
P_configmap == <<"c","o","n","f","i","g","m","a","p">>
P_secret == <<"s","e","c","r","e","t">>

\* v || undefined
OrUndefined(v) == IF Truthy(v) THEN v ELSE undefined

\* value ? source : undefined
SourceIf(v, source) == IF Truthy(v) THEN source ELSE noSource

\* line.length - trimmed.length
Indent(line) == Len(line) - Len(TrimStart(line))

\* the longest prefix of s that [A-Z0-9_]* matches
RECURSIVE NameRun(_)
NameRun(s) ==
    IF s # <<>> /\ (IsUpper(Head(s)) \/ IsDigit(Head(s)) \/ Head(s) = "_")
    THEN <<Head(s)>> \o NameRun(Tail(s)) ELSE <<>>

\* the longest prefix of s that [^"'\n]* matches
RECURSIVE UpToQuote(_)
UpToQuote(s) ==
    IF s # <<>> /\ Head(s) \notin {"\"", "'", "\n"}
    THEN <<Head(s)>> \o UpToQuote(Tail(s)) ELSE <<>>

\* ["']? at the head of s: what follows it
SkipQuote(s) == IF s # <<>> /\ Head(s) \in {"\"", "'"} THEN Tail(s) ELSE s

\* s.toLowerCase()
ToLowerCase(s) ==
    [k \in 1..Len(s) |-> IF IsUpper(s[k]) THEN Ascii[CodeUnit(s[k]) + 32 - 31] ELSE s[k]]

\* trimmed.match(/^-\s*name:\s*["']?([A-Z][A-Z0-9_]*)["']?/) for a trimmed
\* that starts with '- name:': group 1, or undefined when there is no match
WorkloadName(trimmed) ==
    LET r == SkipQuote(TrimStart(SliceFrom(trimmed, Len(S_dash_name))))
    IN  IF r # <<>> /\ IsUpper(Head(r)) THEN NameRun(r) ELSE undefined

\* a variant that looks for the value on the lines that follow, the first
\* `value:` line deciding
RECURSIVE WorkloadValueLater(_, _)
WorkloadValueLater(lines, i) ==
    IF i + 1 < Len(lines)
    THEN LET nextLine == Trim(lines[i + 2])
         IN  IF StartsWith(nextLine, S_value)
             THEN UpToQuote(SkipQuote(TrimStart(SliceFrom(nextLine, Len(S_value)))))
             ELSE WorkloadValueLater(lines, i + 1)
    ELSE undefined

\* the value looked for on the next line:
\* lines[i + 1].trim().match(/^value:\s*["']?([^"'\n]*)["']?/)
WorkloadValue(lines, i) ==
    IF i + 1 < Len(lines)
    THEN LET nextLine == Trim(lines[i + 2])
         IN  IF StartsWith(nextLine, S_value)
             THEN UpToQuote(SkipQuote(TrimStart(SliceFrom(nextLine, Len(S_value)))))
             ELSE undefined
    ELSE undefined

\* the test that ends the env: section
WorkloadExits(indent, currentIndent, trimmed) ==
    indent <= currentIndent /\ ~StartsWith(trimmed, <<"-">>)

\* one iteration of the for loop of scanK8sWorkload; i is 0-based
WorkloadLine(st, lines, i, file, kind, lineOffset) ==
    LET line    == lines[i + 1]
        trimmed == TrimStart(line)
        indent  == Len(line) - Len(trimmed)
    IN  IF StartsWith(trimmed, S_env)
        THEN [st EXCEPT !.inEnvSection = TRUE, !.currentIndent = indent]
        ELSE LET inEnv == st.inEnvSection
                          /\ ~WorkloadExits(indent, st.currentIndent, trimmed)
                 name  == IF inEnv /\ StartsWith(trimmed, S_dash_name)
                          THEN WorkloadName(trimmed) ELSE undefined
                 value == WorkloadValue(lines, i)
             IN  [st EXCEPT
                    !.inEnvSection = inEnv,
                    !.envVars =
                        IF name # undefined
                        THEN Append(@, EnvVar(name, file, lineOffset + i + 1,
                                              L_kubernetes, ToLowerCase(kind),
                                              OrUndefined(value),
                                              SourceIf(value, "k8s-deployment"),
                                              noDefault))
                        ELSE @]

RECURSIVE WorkloadLoop(_, _, _, _, _, _)
WorkloadLoop(st, lines, i, file, kind, lineOffset) ==
    IF i >= Len(lines) THEN st.envVars
    ELSE WorkloadLoop(WorkloadLine(st, lines, i, file, kind, lineOffset),
                      lines, i + 1, file, kind, lineOffset)

scanK8sWorkload(content, file, kind, lineOffset) ==
    WorkloadLoop(K8sLocals, Split(content, <<"\n">>), 0, file, kind, lineOffset)

\* the result of a match that failed (null)
noMatch == [matched |-> FALSE, name |-> <<>>, rest |-> <<>>]

\* trimmed.match(/^([A-Z][A-Z0-9_]*):\s*(.*)$/): the groups 1 and 2, or
\* noMatch ('.' matches no line terminator)
KeyMatch(trimmed) ==
    IF trimmed # <<>> /\ IsUpper(Head(trimmed))
    THEN LET name  == NameRun(trimmed)
             after == SliceFrom(trimmed, Len(name))
             rest  == TrimStart(Tail(after))
         IN  IF /\ after # <<>>
                /\ Head(after) = ":"
                /\ \A k \in 1..Len(rest) : rest[k] \notin {"\n", "\r"}
             THEN [matched |-> TRUE, name |-> name, rest |-> rest]
             ELSE noMatch
    ELSE noMatch

\* a variant of the loop that an empty line ends
RECURSIVE MultilineToBlank(_, _, _, _)
MultilineToBlank(lines, j, expectedIndent, multilineValue) ==
    IF j >= Len(lines) THEN multilineValue
    ELSE LET nextLine    == lines[j + 1]
             nextTrimmed == TrimStart(nextLine)
             nextIndent  == Len(nextLine) - Len(nextTrimmed)
         IN  IF nextIndent >= expectedIndent /\ nextTrimmed # <<>>
             THEN MultilineToBlank(lines, j + 1, expectedIndent,
                                   (IF multilineValue # <<>>
                                    THEN multilineValue \o <<"\n">> ELSE <<>>)
                                   \o nextTrimmed)
             ELSE multilineValue

\* the while loop that collects the lines of a block scalar; j is 0-based
RECURSIVE Multiline(_, _, _, _)
Multiline(lines, j, expectedIndent, multilineValue) ==
    IF j >= Len(lines) THEN multilineValue
    ELSE LET nextLine    == lines[j + 1]
             nextTrimmed == TrimStart(nextLine)
             nextIndent  == Len(nextLine) - Len(nextTrimmed)
         IN  IF nextIndent >= expectedIndent /\ nextTrimmed # <<>>
             THEN Multiline(lines, j + 1, expectedIndent,
                            (IF multilineValue # <<>>
                             THEN multilineValue \o <<"\n">> ELSE <<>>)
                            \o nextTrimmed)
             ELSE IF nextTrimmed = <<>>
             THEN Multiline(lines, j + 1, expectedIndent, multilineValue)
             ELSE multilineValue

BlockIndicators == { <<"|">>, <<">">>, <<"|","-">>, <<">","-">> }

\* the value of a ConfigMap entry: quotes removed, a block scalar collected
ConfigMapValue(rest, lines, i, indent) ==
    LET value == StripQuotes(Trim(rest))
    IN  IF value \in BlockIndicators
        THEN OrUndefined(Multiline(lines, i + 1, indent + 2, <<>>))
        ELSE value

\* a test that ends the section only on a shallower line
ConfigMapExitsShallower(indent, dataIndent, trimmed) ==
    indent < dataIndent /\ trimmed # <<>> /\ ~StartsWith(trimmed, <<"#">>)

\* the test that ends the data: section of a ConfigMap
ConfigMapExits(indent, dataIndent, trimmed) ==
    indent <= dataIndent /\ trimmed # <<>> /\ ~StartsWith(trimmed, <<"#">>)

\* one iteration of the for loop of scanConfigMap; i is 0-based
ConfigMapLine(st, lines, i, file, lineOffset) ==
    LET line    == lines[i + 1]
        trimmed == TrimStart(line)
        indent  == Len(line) - Len(trimmed)
    IN  IF StartsWith(trimmed, S_data)
        THEN [st EXCEPT !.inDataSection = TRUE, !.dataIndent = indent]
        ELSE LET inData == st.inDataSection
                           /\ ~ConfigMapExits(indent, st.dataIndent, trimmed)
                 match  == IF inData /\ trimmed # <<>> /\ ~StartsWith(trimmed, <<"#">>)
                           THEN KeyMatch(trimmed) ELSE noMatch
             IN  [st EXCEPT
                    !.inDataSection = inData,
                    !.envVars =
                        IF match.matched
                        THEN LET value == ConfigMapValue(match.rest, lines, i, indent)
                             IN  Append(@, EnvVar(match.name, file, lineOffset + i + 1,
                                                  L_kubernetes, P_configmap,
                                                  OrUndefined(value),
                                                  SourceIf(value, "k8s-configmap"),
                                                  noDefault))
                        ELSE @]

RECURSIVE ConfigMapLoop(_, _, _, _, _)
ConfigMapLoop(st, lines, i, file, lineOffset) ==
    IF i >= Len(lines) THEN st.envVars
    ELSE ConfigMapLoop(ConfigMapLine(st, lines, i, file, lineOffset),
                       lines, i + 1, file, lineOffset)

scanConfigMap(content, file, lineOffset) ==
    ConfigMapLoop(K8sLocals, Split(content, <<"\n">>), 0, file, lineOffset)

\* the base64 alphabet; '-' and '_' of the URL-safe alphabet count as '+', '/'
Base64Alphabet == <<
    "A","B","C","D","E","F","G","H","I","J","K","L","M","N","O","P","Q","R","S",
    "T","U","V","W","X","Y","Z","a","b","c","d","e","f","g","h","i","j","k","l",
    "m","n","o","p","q","r","s","t","u","v","w","x","y","z","0","1","2","3","4",
    "5","6","7","8","9","+","/" >>

IsBase64(c) == c \in {"-", "_"} \/ \E k \in 1..Len(Base64Alphabet) : Base64Alphabet[k] = c

Unbase64(c) == IF c = "-" THEN 62 ELSE IF c = "_" THEN 63
               ELSE (CHOOSE k \in 1..Len(Base64Alphabet) : Base64Alphabet[k] = c) - 1

\* the sextets of the characters before the first '=', the characters outside
\* the alphabet skipped
RECURSIVE Sextets(_)
Sextets(s) ==
    IF s = <<>> \/ Head(s) = "=" THEN <<>>
    ELSE IF IsBase64(Head(s)) THEN <<Unbase64(Head(s))>> \o Sextets(Tail(s))
    ELSE Sextets(Tail(s))

\* the bytes that the sextets hold, four sextets to three bytes
RECURSIVE Octets(_)
Octets(v) ==
    IF Len(v) < 2 THEN <<>>
    ELSE LET b1 == (v[1] * 4 + v[2] \div 16) % 256
         IN  IF Len(v) = 2 THEN <<b1>>
             ELSE LET b2 == ((v[2] % 16) * 16 + v[3] \div 4) % 256
                  IN  IF Len(v) = 3 THEN <<b1, b2>>
                      ELSE <<b1, b2, ((v[3] % 4) * 64 + v[4]) % 256>>
                           \o Octets(SubSeq(v, 5, Len(v)))

\* the character of a byte; a byte outside printable ASCII is kept as one
\* character, written "?"
ByteChar(b) == IF b >= 32 /\ b <= 126 THEN Ascii[b - 31] ELSE "?"

\* a decoding that leaves the text as it is
Base64DecodeNone(value) == value

\* Buffer.from(value, 'base64').toString('utf-8')
Base64Decode(value) ==
    LET bytes == Octets(Sextets(value))
    IN  [k \in 1..Len(bytes) |-> ByteChar(bytes[k])]

\* the test that ends the data: or stringData: section of a Secret
SecretExits(indent, dataIndent, trimmed) ==
    indent <= dataIndent /\ trimmed # <<>> /\ ~StartsWith(trimmed, <<"#">>)

\* one iteration of the for loop of scanSecret; i is 0-based
SecretLine(st, lines, i, file, lineOffset) ==
    LET line    == lines[i + 1]
        trimmed == TrimStart(line)
        indent  == Len(line) - Len(trimmed)
    IN  IF StartsWith(trimmed, S_data)
        THEN [st EXCEPT !.inDataSection = TRUE, !.inStringDataSection = FALSE,
                        !.dataIndent = indent]
        ELSE IF StartsWith(trimmed, S_stringData)
        THEN [st EXCEPT !.inStringDataSection = TRUE, !.inDataSection = FALSE,
                        !.dataIndent = indent]
        ELSE LET exits    == (st.inDataSection \/ st.inStringDataSection)
                             /\ SecretExits(indent, st.dataIndent, trimmed)
                 inData   == st.inDataSection /\ ~exits
                 inString == st.inStringDataSection /\ ~exits
                 match    == IF /\ (inData \/ inString)
                                /\ trimmed # <<>>
                                /\ ~StartsWith(trimmed, <<"#">>)
                             THEN KeyMatch(trimmed) ELSE noMatch
             IN  [st EXCEPT
                    !.inDataSection = inData,
                    !.inStringDataSection = inString,
                    !.envVars =
                        IF match.matched
                        THEN LET quoted == StripQuotes(Trim(match.rest))
                                 value  == IF inData /\ quoted # <<>>
                                           THEN Base64Decode(quoted) ELSE quoted
                             IN  Append(@, EnvVar(match.name, file, lineOffset + i + 1,
                                                  L_kubernetes, P_secret,
                                                  OrUndefined(value),
                                                  SourceIf(value, "k8s-secret"),
                                                  noDefault))
                        ELSE @]

RECURSIVE SecretLoop(_, _, _, _, _)
SecretLoop(st, lines, i, file, lineOffset) ==
    IF i >= Len(lines) THEN st.envVars
    ELSE SecretLoop(SecretLine(st, lines, i, file, lineOffset),
                    lines, i + 1, file, lineOffset)

scanSecret(content, file, lineOffset) ==
    SecretLoop(K8sLocals, Split(content, <<"\n">>), 0, file, lineOffset)

-----------------------------------------------------------------------------
(* One document under a sub-scanner, line by line *)

K_Deployment == <<"D","e","p","l","o","y","m","e","n","t">>

\* lines of a workload document: the header, an entry and its value, a blank
\* line, a comment, a sibling key of the header, an empty value
WorkloadLines == {
    <<" "," "," "," ","v","a","l","u","e",":"," ","\"","\"">>,
    <<" "," ","e","n","v",":">>,
    <<" "," ","-"," ","n","a","m","e",":"," ","A">>,
    <<" "," "," "," ","v","a","l","u","e",":"," ","x">>,
    <<>>,
    <<"#"," ","c">>,
    <<" "," ","i","m","a","g","e",":"," ","i">> }

\* lines of a ConfigMap document: the header, an entry, a blank line, a
\* comment, a key at the header's indentation, a block scalar and its text,
\* a folded block scalar, a text line of the shape of an entry
ConfigMapLines == {
    <<" "," ","A",":"," ",">","-">>,
    <<" "," "," "," ","K",":"," ","v">>,
    <<"d","a","t","a",":">>,
    <<" "," ","A",":"," ","v">>,
    <<>>,
    <<"#"," ","c">>,
    <<"B",":"," ","w">>,
    <<" "," ","A",":"," ","|">>,
    <<" "," "," "," ","t">> }

\* lines of a Secret document: the two headers, an entry whose value decodes
\* to "x", the same in quotes, one whose value decodes to nothing, one whose
\* value is no base64, one without a value, a blank line, a comment, a key at
\* the headers' indentation
SecretLines == {
    <<"d","a","t","a",":">>,
    <<"s","t","r","i","n","g","D","a","t","a",":">>,
    <<" "," ","A",":"," ","e","A","=","=">>,
    <<" "," ","A",":"," ","\"","e","A","=","=","\"">>,
    <<" "," ","A",":"," ","=">>,
    <<" "," ","A",":"," ","h","i","!">>,
    <<" "," ","A",":">>,
    <<>>,
    <<"#"," ","c">>,
    <<"B",":"," ","w">> }

InitK8sDoc ==
    /\ RecIdle /\ CmpIdle /\ ManIdle /\ FmtIdle /\ ScnIdle /\ RunIdle /\ IdIdle /\ PfIdle
    /\ subScanner \in {"workload", "configmap", "secret"}
    /\ subKind = IF subScanner = "workload" THEN K_Deployment ELSE <<>>
    /\ \E n \in 0..MaxDocLines :
          subLines \in [1..n -> CASE subScanner = "workload"  -> WorkloadLines
                                  [] subScanner = "configmap" -> ConfigMapLines
                                  [] subScanner = "secret"    -> SecretLines]
    /\ subI = 0
    /\ subState = K8sLocals

\* scanK8sWorkload: the body of the for loop for the line at index i
WorkloadStep ==
    /\ subScanner = "workload"
    /\ subI < Len(subLines)
    /\ subState' = WorkloadLine(subState, subLines, subI, File_c, subKind, 0)
    /\ subI' = subI + 1
    /\ UNCHANGED <<subScanner, subKind, subLines>>
    /\ UNCHANGED <<recVars, cmpVars, manVars, fmtVars, scnVars, runVars, idVars, pfVars>>

\* scanConfigMap: the body of the for loop for the line at index i
ConfigMapStep ==
    /\ subScanner = "configmap"
    /\ subI < Len(subLines)
    /\ subState' = ConfigMapLine(subState, subLines, subI, File_c, 0)
    /\ subI' = subI + 1
    /\ UNCHANGED <<subScanner, subKind, subLines>>
    /\ UNCHANGED <<recVars, cmpVars, manVars, fmtVars, scnVars, runVars, idVars, pfVars>>

\* scanSecret: the body of the for loop for the line at index i
SecretStep ==
    /\ subScanner = "secret"
    /\ subI < Len(subLines)
    /\ subState' = SecretLine(subState, subLines, subI, File_c, 0)
    /\ subI' = subI + 1
    /\ UNCHANGED <<subScanner, subKind, subLines>>
    /\ UNCHANGED <<recVars, cmpVars, manVars, fmtVars, scnVars, runVars, idVars, pfVars>>

NextK8sDoc == WorkloadStep \/ ConfigMapStep \/ SecretStep

SpecK8sDoc == InitK8sDoc /\ [][NextK8sDoc]_vars

-----------------------------------------------------------------------------
(* Claims about the sections of the sub-scanners *)

\* the in-section state of a sub-scanner
InSection(st) == st.inEnvSection \/ st.inDataSection \/ st.inStringDataSection

SectionState(st) == <<st.inEnvSection, st.inDataSection, st.inStringDataSection>>

\* the indentation of the header that opened the section
SectionIndent(st) == IF subScanner = "workload" THEN st.currentIndent ELSE st.dataIndent

BlankOrComment(line) == TrimStart(line) = <<>> \/ Head(TrimStart(line)) = "#"

\* the line is a section header of the sub-scanner at work
IsHeader(line) ==
    LET trimmed == TrimStart(line)
    IN  CASE subScanner = "workload"  -> StartsWith(trimmed, S_env)
          [] subScanner = "configmap" -> StartsWith(trimmed, S_data)
          [] subScanner = "secret"    -> StartsWith(trimmed, S_data)
                                         \/ StartsWith(trimmed, S_stringData)
          [] OTHER -> FALSE

\* a sibling key: non-blank, no comment, not '-'-prefixed, no header, and
\* indented no deeper than d
IsSibling(line, d) ==
    /\ ~BlankOrComment(line)
    /\ Head(TrimStart(line)) # "-"
    /\ ~IsHeader(line)
    /\ Indent(line) <= d

\* C9: in each of the three sub-scanners, while the scanner is inside a
\* section, a line that is blank or whose first non-space character is '#'
\* leaves the in-section state unchanged, whatever its indentation.
C9_BlankOrCommentKeepsSection ==
    [][ (/\ subI < Len(subLines)
         /\ subI' = subI + 1
         /\ InSection(subState)
         /\ BlankOrComment(subLines[subI + 1]))
        => SectionState(subState') = SectionState(subState) ]_vars

\* C10: in each of the three sub-scanners, inside a section opened by a
\* header at indentation d, a line that is non-blank, no comment, not
\* '-'-prefixed and indented at most d ends the section without producing an
\* occurrence, and outside a section no line produces an occurrence or opens
\* a section unless it is a section header.
C10_SiblingKeyEndsSection ==
    [][ (subI < Len(subLines) /\ subI' = subI + 1) =>
          LET line == subLines[subI + 1]
          IN  /\ (InSection(subState) /\ IsSibling(line, SectionIndent(subState)))
                     => (~InSection(subState')
                         /\ subState'.envVars = subState.envVars)
              /\ (~InSection(subState) /\ ~IsHeader(line))
                     => (~InSection(subState')
                         /\ subState'.envVars = subState.envVars) ]_vars

\* a ConfigMap or Secret section was opened, a sibling key ended it, and the
\* `KEY: value` line that followed was read without an occurrence
C10_EntryAfterSiblingSkipped ==
    /\ subScanner \in {"configmap", "secret"}
    /\ subI = 3
    /\ IsHeader(subLines[1])
    /\ IsSibling(subLines[2], Indent(subLines[1]))
    /\ KeyMatch(TrimStart(subLines[3])).matched
    /\ Indent(subLines[3]) > Indent(subLines[1])
    /\ subState.envVars = <<>>
    /\ ~InSection(subState)

-----------------------------------------------------------------------------
(* scanK8sManifests: one YAML file, document by document *)

S_apiVersion == <<"a","p","i","V","e","r","s","i","o","n",":">>
S_kind == <<"k","i","n","d",":">>
S_separator == <<"-","-","-">>

K_StatefulSet == <<"S","t","a","t","e","f","u","l","S","e","t">>
K_DaemonSet == <<"D","a","e","m","o","n","S","e","t">>
K_Job == <<"J","o","b">>
K_CronJob == <<"C","r","o","n","J","o","b">>
K_Pod == <<"P","o","d">>
K_ReplicaSet == <<"R","e","p","l","i","c","a","S","e","t">>
K_ConfigMap == <<"C","o","n","f","i","g","M","a","p">>
K_Secret == <<"S","e","c","r","e","t">>

WorkloadKinds == {K_Deployment, K_StatefulSet, K_DaemonSet, K_Job, K_CronJob,
                  K_Pod, K_ReplicaSet}

\* ^ of a regular expression with the m flag, at the 0-based position p
LineStartAt(content, p) == IF p = 0 THEN TRUE ELSE content[p] \in {"\n", "\r"}

\* /^prefix/m.test(content)
TestAtLineStart(content, prefix) ==
    \E p \in 0..(Len(content) - 1) :
        LineStartAt(content, p) /\ StartsWithAt(content, prefix, p)

isK8sManifest(content) ==
    TestAtLineStart(content, S_apiVersion) /\ TestAtLineStart(content, S_kind)

\* the longest prefix of s that \w* matches
RECURSIVE WordRun(_)
WordRun(s) == IF s # <<>> /\ IsWord(Head(s)) THEN <<Head(s)>> \o WordRun(Tail(s))
              ELSE <<>>

\* content.match(/^kind:\s*(\w+)/m) from the 0-based position p on: group 1
\* of the leftmost match, or undefined (null)
RECURSIVE KindFrom(_, _)
KindFrom(content, p) ==
    IF p >= Len(content) THEN undefined
    ELSE LET word == WordRun(TrimStart(SliceFrom(content, p + Len(S_kind))))
         IN  IF /\ LineStartAt(content, p)
                /\ StartsWithAt(content, S_kind, p)
                /\ word # <<>>
             THEN word
             ELSE KindFrom(content, p + 1)

getK8sKind(content) == KindFrom(content, 0)

\* the switch on docKind: the occurrences of the sub-scanner it selects
ScanDocument(docKind, content, file, lineOffset) ==
    IF docKind \in WorkloadKinds THEN scanK8sWorkload(content, file, docKind, lineOffset)
    ELSE IF docKind = K_ConfigMap THEN scanConfigMap(content, file, lineOffset)
    ELSE IF docKind = K_Secret THEN scanSecret(content, file, lineOffset)
    ELSE <<>>

\* lines of a YAML file: the separator, an empty line, the two top-level keys
\* of a manifest with two kinds, and a section with an entry for each kind
FileLines == {
    <<"-","-","-">>,
    <<>>,
    <<"a","p","i","V","e","r","s","i","o","n",":"," ","v","1">>,
    <<"k","i","n","d",":"," ","C","o","n","f","i","g","M","a","p">>,
    <<"k","i","n","d",":"," ","P","o","d">>,
    <<"d","a","t","a",":">>,
    <<" "," ","A",":"," ","v">>,
    <<"e","n","v",":">>,
    <<" "," ","-"," ","n","a","m","e",":"," ","A">> }

InitK8sFile ==
    /\ RecIdle /\ CmpIdle /\ SubIdle /\ FmtIdle /\ ScnIdle /\ RunIdle /\ IdIdle /\ PfIdle
    /\ \E n \in 0..MaxFileLines :
          \E ls \in [1..n -> FileLines] : manContent = Join(ls, <<"\n">>)
    /\ manLines = <<>>
    /\ manI = 0
    /\ docStartLine = 0
    /\ docContent = <<>>
    /\ manScanned = <<>>
    /\ manEnvVars = <<>>
    /\ manPc = "start"

\* the file is no manifest: `continue`
SkipFile ==
    /\ manPc = "start"
    /\ ~isK8sManifest(manContent)
    /\ manPc' = "skipped"
    /\ UNCHANGED <<manContent, manLines, manI, docStartLine, docContent,
                   manScanned, manEnvVars>>
    /\ UNCHANGED <<recVars, cmpVars, subVars, fmtVars, scnVars, runVars, idVars, pfVars>>

\* the file is a manifest: it is split into lines and the loop entered
SplitFile ==
    /\ manPc = "start"
    /\ isK8sManifest(manContent)
    /\ manLines' = Split(manContent, <<"\n">>)
    /\ manI' = 0
    /\ docStartLine' = 0
    /\ docContent' = <<>>
    /\ manPc' = "loop"
    /\ UNCHANGED <<manContent, manScanned, manEnvVars>>
    /\ UNCHANGED <<recVars, cmpVars, subVars, fmtVars, scnVars, runVars, idVars, pfVars>>

\* an iteration at the end of the lines or on a '---' line: the current
\* document goes to the sub-scanner of its kind and a new document starts
ProcessDocument ==
    /\ manPc = "loop"
    /\ manI <= Len(manLines)
    /\ IF manI = Len(manLines) THEN TRUE ELSE manLines[manI + 1] = S_separator
    /\ LET kind     == getK8sKind(manContent)
           own      == getK8sKind(docContent)
           docKind  == IF own # undefined THEN own ELSE kind
           scanned  == docKind \in WorkloadKinds \cup {K_ConfigMap, K_Secret}
           found    == ScanDocument(docKind, docContent, File_c, docStartLine)
       IN  IF Trim(docContent) # <<>> /\ scanned
           THEN /\ manEnvVars' = manEnvVars \o found
                /\ manScanned' = Append(manScanned,
                                        [kind |-> docKind, content |-> docContent,
                                         lineOffset |-> docStartLine,
                                         envVars |-> found])
           ELSE UNCHANGED <<manEnvVars, manScanned>>
    /\ docStartLine' = manI + 1
    /\ docContent' = <<>>
    /\ manI' = manI + 1
    /\ manPc' = IF manI = Len(manLines) THEN "done" ELSE "loop"
    /\ UNCHANGED <<manContent, manLines>>
    /\ UNCHANGED <<recVars, cmpVars, subVars, fmtVars, scnVars, runVars, idVars, pfVars>>

\* an iteration on any other line: the line joins the current document
CollectLine ==
    /\ manPc = "loop"
    /\ manI < Len(manLines)
    /\ manLines[manI + 1] # S_separator
    /\ docContent' = (IF docContent # <<>> THEN docContent \o <<"\n">> ELSE <<>>)
                     \o manLines[manI + 1]
    /\ manI' = manI + 1
    /\ UNCHANGED <<manContent, manLines, docStartLine, manScanned, manEnvVars, manPc>>
    /\ UNCHANGED <<recVars, cmpVars, subVars, fmtVars, scnVars, runVars, idVars, pfVars>>

NextK8sFile == SkipFile \/ SplitFile \/ ProcessDocument \/ CollectLine

SpecK8sFile == InitK8sFile /\ [][NextK8sFile]_vars

-----------------------------------------------------------------------------
(* Claims about the documents of a manifest file *)

\* the line holds an entry of the name: `- name: NAME` or `NAME: value`
IsEntryFor(line, name) ==
    LET trimmed == TrimStart(line)
    IN  \/ StartsWith(trimmed, S_dash_name) /\ WorkloadName(trimmed) = name
        \/ KeyMatch(trimmed).matched /\ KeyMatch(trimmed).name = name

\* C7: for every occurrence that scanK8sManifests emits, `line` is the
\* 1-based number, counted in the whole file, of the line on which the entry
\* appears, whatever documents, '---' lines and blank lines precede it.
C7_FileGlobalLines ==
    \A k \in 1..Len(manEnvVars) :
        /\ manEnvVars[k].line \in 1..Len(manLines)
        /\ IsEntryFor(manLines[manEnvVars[k].line], manEnvVars[k].name)

\* C8: a document is passed to a sub-scanner only if it holds itself a
\* top-level `apiVersion:` line and a top-level `kind:` line, and the
\* sub-scanner is the one of the document's own kind.
C8_OwnManifestOnly ==
    \A k \in 1..Len(manScanned) :
        /\ isK8sManifest(manScanned[k].content)
        /\ getK8sKind(manScanned[k].content) = manScanned[k].kind

-----------------------------------------------------------------------------
(* The file scanners of property-scanner.ts, line by line *)

L_properties == <<"p","r","o","p","e","r","t","i","e","s">>
L_compose == <<"d","o","c","k","e","r","-","c","o","m","p","o","s","e">>
P_placeholder == <<"s","p","r","i","n","g",".","p","l","a","c","e","h","o","l","d","e","r">>
P_envdef == <<"e","n","v","i","r","o","n","m","e","n","t","-","d","e","f","i","n","i","t","i","o","n">>
P_varref == <<"v","a","r","i","a","b","l","e","-","r","e","f","e","r","e","n","c","e">>
S_export == <<"e","x","p","o","r","t">>

\* a match of a regular expression with the g flag: the groups and the
\* 0-based position at which the next search starts
Placeholder(name, default, next) == [name |-> name, default |-> default, next |-> next]

\* the matches of /\$\{([A-Z][A-Z0-9_]*)(?::([^}]*))?\}/g in line from the
\* 0-based position p on, left to right
RECURSIVE PlaceholdersFrom(_, _)
PlaceholdersFrom(line, p) ==
    IF p >= Len(line) THEN <<>>
    ELSE IF /\ StartsWithAt(line, <<"$", "{">>, p)
            /\ p + 2 < Len(line)
            /\ IsUpper(line[p + 3])
    THEN LET name  == NameRun(SliceFrom(line, p + 2))
             q     == p + 2 + Len(name)
             close == IndexFrom(line, <<"}">>, q)
         IN  IF q < Len(line) /\ line[q + 1] = "}"
             THEN <<Placeholder(name, undefined, q + 1)>>
                  \o PlaceholdersFrom(line, q + 1)
             ELSE IF q < Len(line) /\ line[q + 1] = ":" /\ close # -1
             THEN <<Placeholder(name, Slice(line, q + 1, close), close + 1)>>
                  \o PlaceholdersFrom(line, close + 1)
             ELSE PlaceholdersFrom(line, p + 1)
    ELSE PlaceholdersFrom(line, p + 1)

\* the occurrences that the while loop of scanPropertyFile pushes for a line
PropertyLine(line, i, file) ==
    LET found == PlaceholdersFrom(line, 0)
    IN  [k \in 1..Len(found) |->
            EnvVar(found[k].name, file, i + 1, L_properties, P_placeholder,
                   found[k].default,
                   SourceIf(found[k].default, "properties"),
                   JsBool(Truthy(found[k].default)))]

\* [A-Z] and [A-Z0-9_]* under the i flag
IsLetter(c) == IsUpper(c) \/ IsLower(c)

RECURSIVE NameRunI(_)
NameRunI(s) == IF s # <<>> /\ IsWord(Head(s)) THEN <<Head(s)>> \o NameRunI(Tail(s))
               ELSE <<>>

\* '.' of a regular expression: no line terminator
NoLineEnd(s) == \A k \in 1..Len(s) : s[k] \notin {"\n", "\r"}

\* /^ENV\s+/i or /^ARG\s+/i at the head of line: what follows, or undefined
AfterKeyword(line, keyword) ==
    IF /\ Len(line) > 3
       /\ [k \in 1..3 |-> IF IsLower(line[k]) THEN Ascii[CodeUnit(line[k]) - 32 - 31]
                          ELSE line[k]] = keyword
       /\ IsSpace(line[4])
    THEN TrimStart(SliceFrom(line, 3))
    ELSE undefined

\* the three patterns of scanDockerfile on a trimmed line: which one matched,
\* group 1 and group 2 (undefined when the group did not take part)
DockerfileMatch(line) ==
    LET env   == AfterKeyword(line, <<"E","N","V">>)
        arg   == AfterKeyword(line, <<"A","R","G">>)
        r     == IF env # undefined THEN env ELSE arg
        named == r # undefined /\ r # <<>> /\ IsLetter(Head(r))
        name  == NameRunI(r)
        after == SliceFrom(r, Len(name))
    IN  IF env # undefined /\ named /\ after # <<>> /\ Head(after) = "="
           /\ NoLineEnd(Tail(after))
        THEN [pattern |-> "ENV", name |-> name, value |-> Tail(after)]
        ELSE IF env # undefined /\ named /\ after # <<>> /\ IsSpace(Head(after))
                /\ TrimStart(after) # <<>> /\ NoLineEnd(TrimStart(after))
        THEN [pattern |-> "ENV", name |-> name, value |-> TrimStart(after)]
        ELSE IF arg # undefined /\ named /\ after = <<>>
        THEN [pattern |-> "ARG", name |-> name, value |-> undefined]
        ELSE IF arg # undefined /\ named /\ Head(after) = "=" /\ NoLineEnd(Tail(after))
        THEN [pattern |-> "ARG", name |-> name, value |-> Tail(after)]
        ELSE [pattern |-> "none", name |-> <<>>, value |-> undefined]

\* group?.trim()
TrimIfDefined(v) == IF v = undefined THEN undefined ELSE Trim(v)

\* a variant that records an empty value as the empty text
DockerfileLineKeepsEmpty(rawLine, i, file) ==
    LET match == DockerfileMatch(Trim(rawLine))
        value == TrimIfDefined(match.value)
    IN  IF match.pattern = "ENV"
        THEN <<EnvVar(match.name, file, i + 1, L_dockerfile, P_ENV,
                      value, SourceIf(value, "dockerfile-env"), noDefault)>>
        ELSE IF match.pattern = "ARG"
        THEN <<EnvVar(match.name, file, i + 1, L_dockerfile, P_ARG,
                      value, SourceIf(value, "dockerfile-arg"),
                      JsBool(Truthy(value)))>>
        ELSE <<>>

\* the occurrences that the loop body of scanDockerfile pushes for a line
DockerfileLine(rawLine, i, file) ==
    LET match == DockerfileMatch(Trim(rawLine))
        value == TrimIfDefined(match.value)
    IN  IF match.pattern = "ENV"
        THEN <<EnvVar(match.name, file, i + 1, L_dockerfile, P_ENV,
                      OrUndefined(value), SourceIf(value, "dockerfile-env"),
                      noDefault)>>
        ELSE IF match.pattern = "ARG"
        THEN <<EnvVar(match.name, file, i + 1, L_dockerfile, P_ARG,
                      OrUndefined(value), SourceIf(value, "dockerfile-arg"),
                      JsBool(Truthy(value)))>>
        ELSE <<>>

parseEnvValue(rawValue) ==
    LET value      == StripQuotes(Trim(rawValue))
        commentIdx == IndexOf(value, <<"#">>)
    IN  IF ~StartsWith(rawValue, <<"\"">>) /\ ~StartsWith(rawValue, <<"'">>)
           /\ commentIdx > 0
        THEN Trim(Slice(value, 0, commentIdx))
        ELSE value

\* /^(?:export\s+)?([A-Z][A-Z0-9_]*)=(.*)$/ on a trimmed line
DotEnvMatch(line) ==
    LET r     == IF StartsWith(line, S_export) /\ Len(line) > Len(S_export)
                    /\ IsSpace(line[Len(S_export) + 1])
                 THEN TrimStart(SliceFrom(line, Len(S_export)))
                 ELSE line
        name  == NameRun(r)
        after == SliceFrom(r, Len(name))
    IN  IF r # <<>> /\ IsUpper(Head(r)) /\ after # <<>> /\ Head(after) = "="
           /\ NoLineEnd(Tail(after))
        THEN [matched |-> TRUE, name |-> name, rest |-> Tail(after)]
        ELSE noMatch

\* the occurrences that the loop body of scanDotEnvFile pushes for a line
DotEnvLine(rawLine, i, file) ==
    LET line  == Trim(rawLine)
        match == DotEnvMatch(line)
    IN  IF StartsWith(line, <<"#">>) \/ line = <<>> THEN <<>>
        ELSE IF match.matched
        THEN <<EnvVar(match.name, file, i + 1, L_dotenv, P_definition,
                      OrUndefined(parseEnvValue(match.rest)), "dotenv", noDefault)>>
        ELSE <<>>

\* /^\s*-?\s*([A-Z][A-Z0-9_]*)([=:])(.*)$/ on a line
ComposeDefMatch(line) ==
    LET r0    == TrimStart(line)
        r     == IF r0 # <<>> /\ Head(r0) = "-" THEN TrimStart(Tail(r0)) ELSE r0
        name  == NameRun(r)
        after == SliceFrom(r, Len(name))
    IN  IF r # <<>> /\ IsUpper(Head(r)) /\ after # <<>> /\ Head(after) \in {"=", ":"}
           /\ NoLineEnd(Tail(after))
        THEN [matched |-> TRUE, name |-> name, rest |-> Tail(after)]
        ELSE noMatch

\* the names that /\$\{?([A-Z][A-Z0-9_]*)\}?/g matches in line from the
\* 0-based position p on
RECURSIVE VarRefsFrom(_, _)
VarRefsFrom(line, p) ==
    IF p >= Len(line) THEN <<>>
    ELSE IF line[p + 1] = "$"
    THEN LET q    == IF p + 1 < Len(line) /\ line[p + 2] = "{" THEN p + 2 ELSE p + 1
             name == NameRun(SliceFrom(line, q))
             e    == q + Len(name)
             next == IF e < Len(line) /\ line[e + 1] = "}" THEN e + 1 ELSE e
         IN  IF q < Len(line) /\ IsUpper(line[q + 1])
             THEN <<name>> \o VarRefsFrom(line, next)
             ELSE VarRefsFrom(line, p + 1)
    ELSE VarRefsFrom(line, p + 1)

\* a variant that goes on to the references of a definition line
ComposeLineAlsoRefs(line, i, file) ==
    LET defMatch == ComposeDefMatch(line)
        value    == StripQuotes(Trim(defMatch.rest))
        refs     == VarRefsFrom(line, 0)
    IN  (IF defMatch.matched
         THEN <<EnvVar(defMatch.name, file, i + 1, L_compose, P_envdef,
                       OrUndefined(value), SourceIf(value, "docker-compose"),
                       noDefault)>>
         ELSE <<>>)
        \o [k \in 1..Len(refs) |->
                EnvVar(refs[k], file, i + 1, L_compose, P_varref,
                       undefined, noSource, noDefault)]

\* the occurrences that the loop body of scanDockerComposeFile pushes
ComposeLine(line, i, file) ==
    LET defMatch == ComposeDefMatch(line)
        value    == StripQuotes(Trim(defMatch.rest))
        refs     == VarRefsFrom(line, 0)
    IN  IF defMatch.matched
        THEN <<EnvVar(defMatch.name, file, i + 1, L_compose, P_envdef,
                      OrUndefined(value), SourceIf(value, "docker-compose"),
                      noDefault)>>
        ELSE [k \in 1..Len(refs) |->
                 EnvVar(refs[k], file, i + 1, L_compose, P_varref,
                        undefined, noSource, noDefault)]

-----------------------------------------------------------------------------
(* One file under a file scanner, line by line *)

\* lines of a property file: placeholders without a default, with one, with
\* an empty one, two on a line, a lower-case name, one left open, one nested
\* in the default of another
PropertyLines == {
    <<"a","=","$","{","A",":","$","{","B",":","d","}","}">>,
    <<"a","=","$","{","A","}">>, <<"a","=","$","{","A",":","x","}">>, <<"a","=","$","{","A",":","}">>, <<"a","=","$","{","A",":","x","}","$","{","B","}">>, <<"a","=","$","{","a","}">>, <<"a","=","$","{","A",":","x">> }

\* lines of a Dockerfile: ENV with '=', with an empty value, with a space,
\* in lower case; ARG alone, with a default, with an empty one; another
\* line; ENV with '=' and a space in the value
DockerfileLines == {
    <<"E","N","V"," ","A","=","x"," ","y">>,
    <<"E","N","V"," ","A","=","x">>, <<"E","N","V"," ","A","=">>, <<"E","N","V"," ","A"," ","x">>, <<"e","n","v"," ","a","=","x">>, <<"A","R","G"," ","A">>, <<"A","R","G"," ","A","=","x">>,
    <<"A","R","G"," ","A","=">>, <<"F","R","O","M"," ","x">> }

\* lines of a .env file: a value, none, an export, a comment, quotes, empty
\* quotes, an inline comment, a '#' in quotes, the same after a space, a
\* comment after a closing quote
DotEnvLines == {
    <<"A","=","x">>, <<"A","=">>, <<"e","x","p","o","r","t"," ","A","=","x">>, <<"#"," ","c">>, <<"A","=","\"","x","\"">>, <<"A","=","\"","\"">>, <<"A","=","x"," ","#"," ","c">>,
    <<"A","=","\"","x","#","y","\"">>, <<"A","="," ","\"","x","#","y","\"">>, <<"A","=","'","x","'","#","c">> }

\* lines of a compose file: a list definition, a mapping definition, one
\* without a value, references in braces and bare, another line; definitions
\* with a reference in the value; two references on a line
ComposeLines == {
    <<" "," ","-"," ","A","=","$","{","B","}">>, <<" "," ","A",":"," ","$","B">>, <<" "," ","a",":"," ","$","{","A","}"," ","$","B">>,
    <<" "," ","-"," ","A","=","x">>, <<" "," ","A",":"," ","x">>, <<" "," ","A",":">>, <<" "," ","a",":"," ","$","{","A","}">>, <<" "," ","a",":"," ","$","A">>, <<" "," ","i","m","a","g","e",":"," ","i">> }

InitFormats ==
    /\ RecIdle /\ CmpIdle /\ SubIdle /\ ManIdle /\ ScnIdle /\ RunIdle /\ IdIdle /\ PfIdle
    /\ fmtScanner \in {"properties", "dockerfile", "dotenv", "docker-compose"}
    /\ \E n \in 0..MaxFmtLines :
          fmtLines \in [1..n -> CASE fmtScanner = "properties"     -> PropertyLines
                                  [] fmtScanner = "dockerfile"     -> DockerfileLines
                                  [] fmtScanner = "dotenv"         -> DotEnvLines
                                  [] fmtScanner = "docker-compose" -> ComposeLines]
    /\ fmtI = 0
    /\ fmtEnvVars = <<>>

\* scanPropertyFile: the body of the for loop for the line at index i
ScanPropertyLine ==
    /\ fmtScanner = "properties"
    /\ fmtI < Len(fmtLines)
    /\ fmtEnvVars' = fmtEnvVars \o PropertyLine(fmtLines[fmtI + 1], fmtI, File_c)
    /\ fmtI' = fmtI + 1
    /\ UNCHANGED <<fmtScanner, fmtLines>>
    /\ UNCHANGED <<recVars, cmpVars, subVars, manVars, scnVars, runVars, idVars, pfVars>>

\* scanDockerfile: the body of the for loop for the line at index i
ScanDockerfileLine ==
    /\ fmtScanner = "dockerfile"
    /\ fmtI < Len(fmtLines)
    /\ fmtEnvVars' = fmtEnvVars \o DockerfileLine(fmtLines[fmtI + 1], fmtI, File_c)
    /\ fmtI' = fmtI + 1
    /\ UNCHANGED <<fmtScanner, fmtLines>>
    /\ UNCHANGED <<recVars, cmpVars, subVars, manVars, scnVars, runVars, idVars, pfVars>>

\* scanDotEnvFile: the body of the for loop for the line at index i
ScanDotEnvLine ==
    /\ fmtScanner = "dotenv"
    /\ fmtI < Len(fmtLines)
    /\ fmtEnvVars' = fmtEnvVars \o DotEnvLine(fmtLines[fmtI + 1], fmtI, File_c)
    /\ fmtI' = fmtI + 1
    /\ UNCHANGED <<fmtScanner, fmtLines>>
    /\ UNCHANGED <<recVars, cmpVars, subVars, manVars, scnVars, runVars, idVars, pfVars>>

\* scanDockerComposeFile: the body of the for loop for the line at index i
ScanComposeLine ==
    /\ fmtScanner = "docker-compose"
    /\ fmtI < Len(fmtLines)
    /\ fmtEnvVars' = fmtEnvVars \o ComposeLine(fmtLines[fmtI + 1], fmtI, File_c)
    /\ fmtI' = fmtI + 1
    /\ UNCHANGED <<fmtScanner, fmtLines>>
    /\ UNCHANGED <<recVars, cmpVars, subVars, manVars, scnVars, runVars, idVars, pfVars>>

NextFormats == ScanPropertyLine \/ ScanDockerfileLine \/ ScanDotEnvLine \/ ScanComposeLine

SpecFormats == InitFormats /\ [][NextFormats]_vars

-----------------------------------------------------------------------------
(* Claims about the occurrences of the scanners *)

\* the occurrences that the scanners have emitted
Emitted ==
    Range(fmtEnvVars) \cup Range(subState.envVars) \cup Range(manEnvVars)
    \cup Range(recScanned)

\* C6: every occurrence that a scanner emits has valueSource present if and
\* only if value is present, a dotenv line `KEY=` and a placeholder
\* `${NAME:}` included.
C6_ValueSourceIffValue ==
    \A ev \in Emitted : (ev.valueSource # noSource) <=> (ev.value # undefined)

-----------------------------------------------------------------------------
(* Claims about scanSecret *)

\* the sub-scanner reads the line as an entry of the section it is in: the
\* line is no header, not blank, no comment, indented deeper than the header
\* of the section, and of the form `KEY: text`
EntryRead(st, line) ==
    /\ InSection(st)
    /\ ~IsHeader(line)
    /\ ~BlankOrComment(line)
    /\ Indent(line) > SectionIndent(st)
    /\ KeyMatch(TrimStart(line)).matched

\* the text of an entry: what follows `KEY:`, trimmed, without its quotes
EntryText(line) == StripQuotes(Trim(KeyMatch(TrimStart(line)).rest))

\* the number of '=' that end a text, two at most
Padding(v) == IF Len(v) >= 2 /\ v[Len(v)] = "=" /\ v[Len(v) - 1] = "=" THEN 2
              ELSE IF Len(v) >= 1 /\ v[Len(v)] = "=" THEN 1 ELSE 0

\* base64 of RFC 4648: groups of four characters of the alphabet, the last
\* group padded with '=', the bits that the padding leaves unused zero
IsValidBase64(v) ==
    LET n == Len(v) - Padding(v)
    IN  /\ Len(v) > 0
        /\ Len(v) % 4 = 0
        /\ n >= 2
        /\ \A k \in 1..n : \E a \in 1..Len(Base64Alphabet) : Base64Alphabet[a] = v[k]
        /\ Padding(v) = 2 => Unbase64(v[n]) % 16 = 0
        /\ Padding(v) = 1 => Unbase64(v[n]) % 4 = 0

\* the base64 encoding of a text of printable ASCII characters
RECURSIVE Base64Encode(_)
Base64Encode(t) ==
    IF t = <<>> THEN <<>>
    ELSE LET b1 == CodeUnit(t[1])
             b2 == IF Len(t) >= 2 THEN CodeUnit(t[2]) ELSE 0
             b3 == IF Len(t) >= 3 THEN CodeUnit(t[3]) ELSE 0
             c1 == Base64Alphabet[b1 \div 4 + 1]
             c2 == Base64Alphabet[(b1 % 4) * 16 + b2 \div 16 + 1]
             c3 == Base64Alphabet[(b2 % 16) * 4 + b3 \div 64 + 1]
             c4 == Base64Alphabet[(b3 % 64) + 1]
         IN  IF Len(t) = 1 THEN <<c1, c2, "=", "=">>
             ELSE IF Len(t) = 2 THEN <<c1, c2, c3, "=">>
             ELSE <<c1, c2, c3, c4>> \o Base64Encode(SubSeq(t, 4, Len(t)))

\* the step reads the next line of the Secret
SecretReads == subScanner = "secret" /\ subI < Len(subLines) /\ subI' = subI + 1

\* the step has pushed one occurrence: that occurrence
Pushed == subState'.envVars[Len(subState'.envVars)]

PushedOne == Len(subState'.envVars) = Len(subState.envVars) + 1

\* C11: for every entry `KEY: v` inside a Secret `data:` section where v is
\* non-empty and no valid base64, scanSecret emits an occurrence for KEY whose
\* value is v verbatim with valueSource k8s-secret.
C11_UndecodableKeptVerbatim ==
    [][ (/\ SecretReads
         /\ subState.inDataSection
         /\ EntryRead(subState, subLines[subI + 1])
         /\ EntryText(subLines[subI + 1]) # <<>>
         /\ ~IsValidBase64(EntryText(subLines[subI + 1])))
        => /\ PushedOne
           /\ Pushed.name = KeyMatch(TrimStart(subLines[subI + 1])).name
           /\ Pushed.value = EntryText(subLines[subI + 1])
           /\ Pushed.valueSource = "k8s-secret" ]_vars

\* the sections of a Secret exclude each other, and a header enters its own
SecretSections ==
    /\ ~(subState'.inDataSection /\ subState'.inStringDataSection)
    /\ StartsWith(TrimStart(subLines[subI + 1]), S_data)
          => subState'.inDataSection /\ ~subState'.inStringDataSection
    /\ StartsWith(TrimStart(subLines[subI + 1]), S_stringData)
          => subState'.inStringDataSection /\ ~subState'.inDataSection

\* C12 as stated: scanSecret is in at most one of in-data / in-stringData; an
\* entry read in stringData gets its quote-stripped text as value, an entry
\* read in data the base64 decoding of that text, and valueSource is
\* k8s-secret in both cases.
C12_SecretValuesAlwaysSourced ==
    [][ SecretReads =>
          LET line == subLines[subI + 1]
          IN  /\ SecretSections
              /\ EntryRead(subState, line) =>
                    /\ PushedOne
                    /\ Pushed.valueSource = "k8s-secret"
                    /\ subState.inStringDataSection => Pushed.value = EntryText(line)
                    /\ (subState.inDataSection /\ IsValidBase64(EntryText(line)))
                          => Base64Encode(Pushed.value) = EntryText(line) ]_vars

\* C12: scanSecret is in at most one of in-data / in-stringData; an entry
\* read in stringData with a non-empty quote-stripped text gets that text as
\* value, an entry read in data whose text is valid base64 gets its decoding,
\* and in both sections an occurrence has valueSource k8s-secret exactly when
\* it has a value: an entry whose value comes out empty has neither.
C12_SecretValues ==
    [][ SecretReads =>
          LET line == subLines[subI + 1]
          IN  /\ SecretSections
              /\ EntryRead(subState, line) =>
                    /\ PushedOne
                    /\ Pushed.name = KeyMatch(TrimStart(line)).name
                    /\ (Pushed.valueSource = "k8s-secret") <=> (Pushed.value # undefined)
                    /\ Pushed.valueSource \in {"k8s-secret", noSource}
                    /\ Pushed.value # <<>>
                    /\ subState.inStringDataSection =>
                          Pushed.value = IF EntryText(line) = <<>> THEN undefined
                                         ELSE EntryText(line)
                    /\ (subState.inDataSection /\ IsValidBase64(EntryText(line)))
                          => Base64Encode(Pushed.value) = EntryText(line) ]_vars

\* a Secret whose stringData entry kept the text eA== and whose data entry
\* decoded the same text to x
C12_LiteralAndDecoded ==
    /\ subScanner = "secret"
    /\ \E a, b \in 1..Len(subState.envVars) :
          /\ subState.envVars[a].value = <<"e","A","=","=">>
          /\ subState.envVars[b].value = <<"x">>
          /\ subState.envVars[a].valueSource = "k8s-secret"
          /\ subState.envVars[b].valueSource = "k8s-secret"

-----------------------------------------------------------------------------
(* scan(): the execution around the external tool *)

MaxPatterns == 2   \* most custom patterns a configuration file declares

\* rules/rules.yaml, the built-in rule document: a `rules:` header and rules
BuiltinRules == <<"r","u","l","e","s",":","\n"," "," ","-"," ","i","d",":"," ","j","s","-","e","n","v","\n"," "," "," "," ","m","e","s","s","a","g","e",":"," ","\"","$","V","A","R","\"","\n">>

\* one entry of customPatterns
CustomPattern(id, pattern, languages) ==
    [id |-> id, pattern |-> pattern, languages |-> languages]

CustomPatterns ==
    { CustomPattern(<<"x">>, <<"f","(","$","V","A","R",")">>, <<<<"j","s">>>>),
      CustomPattern(<<"y">>, <<"g","(","$","V","A","R",")">>, <<<<"g","o">>, <<"p","y">>>>) }

\* a UserConfig; a field the object does not have is the empty list
UserConfig(customPatterns) == [isNull |-> FALSE, customPatterns |-> customPatterns]

nullConfig == [isNull |-> TRUE, customPatterns |-> <<>>]

\* the parser fills nothing in: it returns the empty configuration object
parseSimpleYaml(content) == UserConfig(<<>>)

\* file: [exists, customPatterns], the configuration file of the directory,
\* its content given by the patterns it declares
loadUserConfig(file) ==
    IF ~file.exists THEN nullConfig ELSE parseSimpleYaml(file.customPatterns)

RECURSIVE CustomRulesFrom(_, _, _)
CustomRulesFrom(patterns, k, rules) ==
    IF k > Len(patterns) THEN rules
    ELSE LET p == patterns[k]
         IN  CustomRulesFrom(patterns, k + 1,
                 rules \o <<" "," ","-"," ","i","d",":"," ","c","u","s","t","o","m","-">> \o p.id \o <<"\n">>
                       \o <<" "," "," "," ","p","a","t","t","e","r","n","s",":","\n">>
                       \o <<" "," "," "," "," "," ","-"," ","p","a","t","t","e","r","n",":"," ">> \o p.pattern \o <<"\n">>
                       \o <<" "," "," "," ","l","a","n","g","u","a","g","e","s",":"," ","[">> \o Join(p.languages, <<","," ">>) \o <<"]","\n">>
                       \o <<" "," "," "," ","m","e","s","s","a","g","e",":"," ","\"","$","V","A","R","\"","\n">>
                       \o <<" "," "," "," ","s","e","v","e","r","i","t","y",":"," ","I","N","F","O","\n","\n">>)

generateCustomRulesYaml(patterns) == CustomRulesFrom(patterns, 1, <<"r","u","l","e","s",":","\n">>)

\* customRules.replace(/^rules:\n/, '')
StripRulesHeader(customRules) ==
    IF StartsWith(customRules, <<"r","u","l","e","s",":","\n">>) THEN SliceFrom(customRules, 7)
    ELSE customRules

\* the rule document scan() puts together
RulesContent(userConfig) ==
    IF ~userConfig.isNull /\ Len(userConfig.customPatterns) > 0
    THEN BuiltinRules \o <<"\n">>
             \o StripRulesHeader(generateCustomRulesYaml(userConfig.customPatterns))
    ELSE BuiltinRules

ScanFaults == {"none", "write", "spawn", "parse"}

InitScan ==
    /\ RecIdle /\ CmpIdle /\ SubIdle /\ ManIdle /\ FmtIdle /\ RunIdle /\ IdIdle /\ PfIdle
    /\ scnInstalled \in BOOLEAN
    /\ scnPathExists \in BOOLEAN
    /\ \E exists \in BOOLEAN :
       \E declared \in SeqsUpTo(CustomPatterns, MaxPatterns) :
           /\ exists \/ declared = <<>>
           /\ scnConfig = [exists |-> exists, customPatterns |-> declared]
    /\ scnFault \in ScanFaults
    /\ scnRules = undefined
    /\ scnTempDir = "none"
    /\ scnSpawned = FALSE
    /\ scnPc = "start"

\* checkSemgrepInstalled() resolves false: scan() throws
SemgrepNotFound ==
    /\ scnPc = "start"
    /\ ~scnInstalled
    /\ scnPc' = "threw"
    /\ UNCHANGED <<scnInstalled, scnPathExists, scnConfig, scnFault, scnRules,
                   scnTempDir, scnSpawned>>
    /\ UNCHANGED <<recVars, cmpVars, subVars, manVars, fmtVars, runVars, idVars, pfVars>>

SemgrepFound ==
    /\ scnPc = "start"
    /\ scnInstalled
    /\ scnPc' = "checked"
    /\ UNCHANGED <<scnInstalled, scnPathExists, scnConfig, scnFault, scnRules,
                   scnTempDir, scnSpawned>>
    /\ UNCHANGED <<recVars, cmpVars, subVars, manVars, fmtVars, runVars, idVars, pfVars>>

\* the late variant creates the directory before it looks at the path
PathAbsentLate ==
    /\ scnPc = "checked"
    /\ ~scnPathExists
    /\ scnTempDir' = "present"
    /\ scnPc' = "threw"
    /\ UNCHANGED <<scnInstalled, scnPathExists, scnConfig, scnFault, scnRules, scnSpawned>>
    /\ UNCHANGED <<recVars, cmpVars, subVars, manVars, fmtVars, runVars, idVars, pfVars>>

\* existsSync(absPath) is false: scan() throws
PathAbsent ==
    /\ scnPc = "checked"
    /\ ~scnPathExists
    /\ scnPc' = "threw"
    /\ UNCHANGED <<scnInstalled, scnPathExists, scnConfig, scnFault, scnRules,
                   scnTempDir, scnSpawned>>
    /\ UNCHANGED <<recVars, cmpVars, subVars, manVars, fmtVars, runVars, idVars, pfVars>>

\* rules merged, mkdtempSync, writeFileSync succeeds
WriteRules ==
    /\ scnPc = "checked"
    /\ scnPathExists
    /\ scnFault # "write"
    /\ scnTempDir' = "present"
    /\ scnRules' = RulesContent(loadUserConfig(scnConfig))
    /\ scnPc' = "written"
    /\ UNCHANGED <<scnInstalled, scnPathExists, scnConfig, scnFault, scnSpawned>>
    /\ UNCHANGED <<recVars, cmpVars, subVars, manVars, fmtVars, runVars, idVars, pfVars>>

\* rules merged, mkdtempSync, writeFileSync throws: it stands before the try
WriteRulesFails ==
    /\ scnPc = "checked"
    /\ scnPathExists
    /\ scnFault = "write"
    /\ scnTempDir' = "present"
    /\ scnPc' = "threw"
    /\ UNCHANGED <<scnInstalled, scnPathExists, scnConfig, scnFault, scnRules, scnSpawned>>
    /\ UNCHANGED <<recVars, cmpVars, subVars, manVars, fmtVars, runVars, idVars, pfVars>>

\* runSemgrep resolves, the result is built; finally removes the directory
RunSemgrepReturns ==
    /\ scnPc = "written"
    /\ scnFault \notin {"spawn", "parse"}
    /\ scnSpawned' = TRUE
    /\ scnTempDir' = "removed"
    /\ scnPc' = "returned"
    /\ UNCHANGED <<scnInstalled, scnPathExists, scnConfig, scnFault, scnRules>>
    /\ UNCHANGED <<recVars, cmpVars, subVars, manVars, fmtVars, runVars, idVars, pfVars>>

\* the 'error' event: runSemgrep rejects; finally removes the directory
RunSemgrepSpawnFails ==
    /\ scnPc = "written"
    /\ scnFault = "spawn"
    /\ scnSpawned' = TRUE
    /\ scnTempDir' = "removed"
    /\ scnPc' = "threw"
    /\ UNCHANGED <<scnInstalled, scnPathExists, scnConfig, scnFault, scnRules>>
    /\ UNCHANGED <<recVars, cmpVars, subVars, manVars, fmtVars, runVars, idVars, pfVars>>

\* JSON.parse throws on close: runSemgrep rejects; finally removes the directory
RunSemgrepUnparseable ==
    /\ scnPc = "written"
    /\ scnFault = "parse"
    /\ scnSpawned' = TRUE
    /\ scnTempDir' = "removed"
    /\ scnPc' = "threw"
    /\ UNCHANGED <<scnInstalled, scnPathExists, scnConfig, scnFault, scnRules>>
    /\ UNCHANGED <<recVars, cmpVars, subVars, manVars, fmtVars, runVars, idVars, pfVars>>

NextScan ==
    \/ SemgrepNotFound
    \/ SemgrepFound
    \/ PathAbsent
    \/ WriteRules
    \/ WriteRulesFails
    \/ RunSemgrepReturns
    \/ RunSemgrepSpawnFails
    \/ RunSemgrepUnparseable

SpecScan == InitScan /\ [][NextScan]_vars

\* the rule document holds a rule of this id whose message is "$VAR"
HasCustomRule(rules, id) ==
    \E k \in 0..Len(rules) :
        /\ StartsWithAt(rules, <<" "," ","-"," ","i","d",":"," ","c","u","s","t","o","m","-">> \o id \o <<"\n">>, k)
        /\ \E m \in k..Len(rules) :
               /\ StartsWithAt(rules, <<" "," "," "," ","m","e","s","s","a","g","e",":"," ","\"","$","V","A","R","\"","\n">>, m)
               /\ ~Includes(Slice(rules, k + 1, m), <<" "," ","-"," ","i","d",":"," ">>)

\* C13: when the directory holds a configuration file that declares custom
\* patterns, the rule document written for the external tool holds the
\* built-in rules and, for each declared pattern of id X, a rule of id
\* custom-X with the message "$VAR".
C13_CustomPatternsReachRules ==
    (scnRules # undefined /\ scnConfig.exists) =>
        /\ StartsWith(scnRules, BuiltinRules)
        /\ \A k \in 1..Len(scnConfig.customPatterns) :
               HasCustomRule(scnRules, scnConfig.customPatterns[k].id)

\* C14: an execution of scan() that has created the transient rules
\* directory ends with the directory removed, whether it returns or throws.
C14_TempDirRemovedOnExit ==
    scnPc \in {"returned", "threw"} => scnTempDir # "present"

\* C15: when the external tool is not installed or the path does not
\* exist, scan() throws, having neither created the transient rules
\* directory nor spawned the external tool, and returns no result.
C15_EnvironmentErrorsFirst ==
    /\ ~scnInstalled => scnPc \in {"idle", "start", "threw"}
    /\ ~scnPathExists => scnPc \in {"idle", "start", "checked", "threw"}
    /\ (~scnInstalled \/ ~scnPathExists) => scnTempDir = "none" /\ ~scnSpawned

C15_ThrewOnAbsentPath ==
    /\ scnPc = "threw"
    /\ scnInstalled
    /\ ~scnPathExists
    /\ scnTempDir = "none"

-----------------------------------------------------------------------------
(* run() of the CLI: cloning, the report, masking *)

MaxRun == 2   \* most occurrences in the result that run() reports

\* \b at offset p of s: just one of the characters around it is a word character
WordBoundary(s, p) ==
    (p >= 1 /\ p <= Len(s) /\ IsWord(s[p])) # (p + 1 <= Len(s) /\ IsWord(s[p + 1]))

\* /w/i.test(s)
TestIgnoreCase(s, w) == Includes(ToLowerCase(s), w)

\* /\bw\b/i.test(s)
TestWordIgnoreCase(s, w) ==
    \E p \in 0..Len(s) :
        /\ StartsWithAt(ToLowerCase(s), w, p)
        /\ WordBoundary(s, p)
        /\ WordBoundary(s, p + Len(w))

\* SENSITIVE_PATTERNS.some(p => p.test(varName))
isSensitiveVar(varName) ==
    \/ TestIgnoreCase(varName, <<"s","e","c","r","e","t">>)
    \/ TestIgnoreCase(varName, <<"p","a","s","s","w","o","r","d">>)
    \/ TestIgnoreCase(varName, <<"p","a","s","s","w","d">>)
    \/ TestWordIgnoreCase(varName, <<"k","e","y">>)
    \/ TestIgnoreCase(varName, <<"t","o","k","e","n">>)
    \/ TestWordIgnoreCase(varName, <<"a","p","i">>)
    \/ TestIgnoreCase(varName, <<"a","u","t","h">>)
    \/ TestIgnoreCase(varName, <<"c","r","e","d","e","n","t","i","a","l">>)
    \/ TestIgnoreCase(varName, <<"p","r","i","v","a","t","e">>)

maskValue(value) ==
    IF ~Truthy(value) THEN <<"*","*","*","*">>
    ELSE IF Len(value) <= 4 THEN <<"*","*","*","*">>
    ELSE IF Len(value) <= 8
    THEN Slice(value, 0, 1) \o <<"*","*","*","*">> \o SliceFrom(value, Len(value) - 1)
    ELSE Slice(value, 0, 2) \o <<"*","*","*","*">> \o SliceFrom(value, Len(value) - 2)

getDisplayValue(varName, value, showValues) ==
    IF ~Truthy(value) \/ ~showValues THEN undefined
    ELSE IF isSensitiveVar(varName) THEN maskValue(value) ELSE value

\* groups.get(name): the positions of the occurrences of a name, in order
RECURSIVE LocationsOf(_, _, _)
LocationsOf(envVars, name, k) ==
    IF k > Len(envVars) THEN <<>>
    ELSE (IF envVars[k].name = name THEN <<k>> ELSE <<>>)
             \o LocationsOf(envVars, name, k + 1)

\* locations.find(l => l.value): its position in locations, 0 if none
RECURSIVE FirstWithValue(_, _, _)
FirstWithValue(envVars, locations, i) ==
    IF i > Len(locations) THEN 0
    ELSE IF Truthy(envVars[locations[i]].value) THEN i
    ELSE FirstWithValue(envVars, locations, i + 1)

\* a value written to the report: the name, the text shown, the occurrence
Shown(name, display, loc) ==
    [name |-> name, shown |-> display, value |-> loc.value,
     valueSource |-> loc.valueSource]

\* the values written next to the first locations of a name
RECURSIVE LocationValues(_, _, _, _, _)
LocationValues(envVars, name, locations, first, i) ==
    IF i > Len(locations) \/ i > 3 THEN <<>>
    ELSE LET loc == envVars[locations[i]]
             locDisplayValue == getDisplayValue(name, loc.value, TRUE)
         IN  (IF Truthy(loc.value) /\ i # first /\ Truthy(locDisplayValue)
              THEN <<Shown(name, locDisplayValue, loc)>> ELSE <<>>)
                 \o LocationValues(envVars, name, locations, first, i + 1)

\* the values written for one name: on its heading, then by location
NameValues(envVars, name, showValues) ==
    LET locations == LocationsOf(envVars, name, 1)
        first == FirstWithValue(envVars, locations, 1)
        displayValue ==
            IF first = 0 THEN undefined
            ELSE getDisplayValue(name, envVars[locations[first]].value, TRUE)
    IN  IF ~showValues THEN <<>>
        ELSE (IF first # 0 /\ Truthy(displayValue)
              THEN <<Shown(name, displayValue, envVars[locations[first]])>> ELSE <<>>)
                 \o LocationValues(envVars, name, locations, first, 1)

RECURSIVE ReportFrom(_, _, _, _)
ReportFrom(envVars, names, showValues, k) ==
    IF k > Len(names) THEN <<>>
    ELSE NameValues(envVars, names[k], showValues)
             \o ReportFrom(envVars, names, showValues, k + 1)

\* the values of the text report, names sorted
ReportValues(envVars, showValues) ==
    ReportFrom(envVars, Sort(NameSet(envVars, <<>>)), showValues, 1)

RunNames == { <<"A","P","I","_","K","E","Y">>, <<"M","Y","_","S","E","C","R","E","T">>, <<"a","p","i">>, <<"P","O","R","T">> }

RunValues == { undefined, <<"a","b","c">>, <<"s","k","-","5","6","7","8","9">>, <<"s","k","-","4","5","6","7","8","9">> }

\* the reconciled result of a scan: occurrences of distinct lines of one file
RunResults ==
    { [k \in 1..Len(ns) |->
          EnvVar(ns[k], File_c, k, L_dotenv, P_definition, vs[k],
                 SourceIf(vs[k], "dotenv"), noDefault)] :
      <<ns, vs>> \in UNION { [1..n -> RunNames] \X [1..n -> RunValues] : n \in 0..MaxRun } }

InitRun ==
    /\ RecIdle /\ CmpIdle /\ SubIdle /\ ManIdle /\ FmtIdle /\ ScnIdle /\ IdIdle /\ PfIdle
    /\ runRepo \in BOOLEAN
    /\ runKeep \in BOOLEAN
    /\ runJson \in BOOLEAN
    /\ runShowValues \in BOOLEAN
    /\ runCloneFails \in BOOLEAN
    /\ runCloneFails => runRepo
    /\ runResult \in RunResults
    /\ runCloneDir = "none"
    /\ runPrinted = <<>>
    /\ runPc = "start"

\* cloneRepo returns the directory of the clone
CloneRepo ==
    /\ runPc = "start"
    /\ runRepo
    /\ ~runCloneFails
    /\ runCloneDir' = "present"
    /\ runPc' = "ready"
    /\ UNCHANGED <<runRepo, runKeep, runJson, runShowValues, runCloneFails,
                   runResult, runPrinted>>
    /\ UNCHANGED <<recVars, cmpVars, subVars, manVars, fmtVars, scnVars, idVars, pfVars>>

\* cloneRepo returns null: run() throws
CloneRepoFails ==
    /\ runPc = "start"
    /\ runRepo
    /\ runCloneFails
    /\ runPc' = "threw"
    /\ UNCHANGED <<runRepo, runKeep, runJson, runShowValues, runCloneFails,
                   runResult, runCloneDir, runPrinted>>
    /\ UNCHANGED <<recVars, cmpVars, subVars, manVars, fmtVars, scnVars, idVars, pfVars>>

\* no --repo: the path given is scanned
UseLocalPath ==
    /\ runPc = "start"
    /\ ~runRepo
    /\ runPc' = "ready"
    /\ UNCHANGED <<runRepo, runKeep, runJson, runShowValues, runCloneFails,
                   runResult, runCloneDir, runPrinted>>
    /\ UNCHANGED <<recVars, cmpVars, subVars, manVars, fmtVars, scnVars, idVars, pfVars>>

\* rmSync(clonedRepoPath) when there is a clone and --keep is not given
CloneDirAfterCleanup ==
    IF runCloneDir = "present" /\ ~runKeep THEN "removed" ELSE runCloneDir

\* --json: the result is printed, the clone cleaned up
PrintJson ==
    /\ runPc = "ready"
    /\ runJson
    /\ runCloneDir' = CloneDirAfterCleanup
    /\ runPc' = "returned"
    /\ UNCHANGED <<runRepo, runKeep, runJson, runShowValues, runCloneFails,
                   runResult, runPrinted>>
    /\ UNCHANGED <<recVars, cmpVars, subVars, manVars, fmtVars, scnVars, idVars, pfVars>>

\* text output, nothing found: the message is printed and run() returns
PrintNoVariables ==
    /\ runPc = "ready"
    /\ ~runJson
    /\ Len(runResult) = 0
    /\ runPc' = "returned"
    /\ UNCHANGED <<runRepo, runKeep, runJson, runShowValues, runCloneFails,
                   runResult, runCloneDir, runPrinted>>
    /\ UNCHANGED <<recVars, cmpVars, subVars, manVars, fmtVars, scnVars, idVars, pfVars>>

\* text output: the report is printed, the clone cleaned up
PrintReport ==
    /\ runPc = "ready"
    /\ ~runJson
    /\ Len(runResult) # 0
    /\ runPrinted' = ReportValues(runResult, runShowValues)
    /\ runCloneDir' = CloneDirAfterCleanup
    /\ runPc' = "returned"
    /\ UNCHANGED <<runRepo, runKeep, runJson, runShowValues, runCloneFails, runResult>>
    /\ UNCHANGED <<recVars, cmpVars, subVars, manVars, fmtVars, scnVars, idVars, pfVars>>

NextRun ==
    \/ CloneRepo
    \/ CloneRepoFails
    \/ UseLocalPath
    \/ PrintJson
    \/ PrintNoVariables
    \/ PrintReport

SpecRun == InitRun /\ [][NextRun]_vars

\* the words the documentation lists; a name that holds one, in any case
SensitiveWords ==
    { <<"s","e","c","r","e","t">>, <<"p","a","s","s","w","o","r","d">>, <<"k","e","y">>, <<"t","o","k","e","n">>, <<"a","p","i">>, <<"a","u","t","h">>,
      <<"c","r","e","d","e","n","t","i","a","l">>, <<"p","r","i","v","a","t","e">> }

NamesSensitive(name) == \E w \in SensitiveWords : Includes(ToLowerCase(name), w)

\* C16: with --show-values, every value the text report prints for a
\* variable whose name holds one of the listed words, in any case, is the
\* masked form of the value and not the raw value.
C16_SensitiveValuesMasked ==
    \A k \in 1..Len(runPrinted) :
        NamesSensitive(runPrinted[k].name) =>
            /\ runPrinted[k].shown = maskValue(runPrinted[k].value)
            /\ runPrinted[k].shown # runPrinted[k].value

\* C17: with --repo and without --keep, when the scan of the clone has
\* finished and run() returns, the cloned directory has been removed.
C17_CloneRemovedOnReturn ==
    (runPc = "returned" /\ runRepo /\ ~runKeep) => runCloneDir = "removed"

-----------------------------------------------------------------------------
(* Claims about the file scanners *)

\* the lines of the file that the scanner has gone through
FmtDone == 1..fmtI

\* the occurrences emitted for line k of the file
FmtAt(k) == SelectSeq(fmtEnvVars, LAMBDA ev : ev.line = k)

\* a text that starts and ends with the same quote, single or double
InQuotes(t) ==
    /\ Len(t) >= 2
    /\ t[1] \in {"\"", "'"}
    /\ t[Len(t)] = t[1]

\* the 0-based position of the first '#' of t that is not its first character
FirstInlineHash(t) == IndexFrom(t, <<"#">>, 1)

\* the value of a .env definition as it is described: the text between the
\* quotes when the trimmed raw value is quoted, else the trimmed raw value up
\* to its inline comment, trimmed; an empty value is no value
DotEnvValue(raw) ==
    LET t == Trim(raw)
        v == IF InQuotes(t) THEN Slice(t, 1, Len(t) - 1)
             ELSE IF FirstInlineHash(t) # -1 THEN Trim(Slice(t, 0, FirstInlineHash(t)))
             ELSE t
    IN  IF v = <<>> THEN undefined ELSE v

\* the line is a definition `[export ]NAME=raw`, no blank line and no comment
IsDotEnvDefinition(line) ==
    /\ Trim(line) # <<>>
    /\ Head(Trim(line)) # "#"
    /\ DotEnvMatch(Trim(line)).matched

\* C18: every line `[export ]NAME=raw` of a .env file that is not blank and
\* no comment yields exactly one occurrence, of valueSource dotenv, whose
\* value is the text between the quotes when the trimmed raw value is quoted
\* (any '#' in it kept), and else the trimmed raw value cut at its first '#'
\* that is not its first character, trimmed.
C18_DotenvValueParsing ==
    fmtScanner = "dotenv" =>
        \A k \in FmtDone :
            IsDotEnvDefinition(fmtLines[k]) =>
                /\ Len(FmtAt(k)) = 1
                /\ FmtAt(k)[1].name = DotEnvMatch(Trim(fmtLines[k])).name
                /\ FmtAt(k)[1].valueSource = "dotenv"
                /\ FmtAt(k)[1].value = DotEnvValue(DotEnvMatch(Trim(fmtLines[k])).rest)

\* names and texts after the name from which Dockerfile lines are put together
DockerNames == { <<"A">> }

DockerRests == { <<>>, <<"x">>, <<"x"," ","y">> }

\* a text as a value: the trimmed text, absent when it is empty
AsValue(rest) == IF Trim(rest) = <<>> THEN undefined ELSE Trim(rest)

\* the one occurrence of line k has this name, pattern, value, source and
\* default flag
YieldsOne(k, name, pattern, value, valueSource, isDefault) ==
    /\ Len(FmtAt(k)) = 1
    /\ FmtAt(k)[1].name = name
    /\ FmtAt(k)[1].pattern = pattern
    /\ FmtAt(k)[1].value = value
    /\ FmtAt(k)[1].valueSource = valueSource
    /\ isDefault # noDefault => FmtAt(k)[1].isDefault = isDefault

\* C19: every line of a Dockerfile yields at most one occurrence; `ENV
\* NAME=rest` yields the trimmed rest in full, `ENV NAME rest` the trimmed
\* rest, `ARG NAME=d` the value d with valueSource dockerfile-arg and
\* isDefault true, `ARG NAME` an occurrence without a value, and an empty
\* value is recorded as absent, with no valueSource.
C19_DockerfileExtraction ==
    fmtScanner = "dockerfile" =>
        \A k \in FmtDone :
            /\ Len(FmtAt(k)) <= 1
            /\ \A n \in DockerNames : \A r \in DockerRests :
                   /\ fmtLines[k] = <<"E","N","V"," ">> \o n \o <<"=">> \o r =>
                          YieldsOne(k, n, P_ENV, AsValue(r),
                                    IF r = <<>> THEN noSource ELSE "dockerfile-env",
                                    noDefault)
                   /\ (r # <<>> /\ fmtLines[k] = <<"E","N","V"," ">> \o n \o <<" ">> \o r) =>
                          YieldsOne(k, n, P_ENV, AsValue(r), "dockerfile-env", noDefault)
                   /\ (r # <<>> /\ fmtLines[k] = <<"A","R","G"," ">> \o n \o <<"=">> \o r) =>
                          YieldsOne(k, n, P_ARG, AsValue(r), "dockerfile-arg", "true")
                   /\ fmtLines[k] = <<"A","R","G"," ">> \o n \o <<"=">> =>
                          YieldsOne(k, n, P_ARG, undefined, noSource, noDefault)
                   /\ fmtLines[k] = <<"A","R","G"," ">> \o n =>
                          YieldsOne(k, n, P_ARG, undefined, noSource, noDefault)

\* a Dockerfile of two lines gone through: a value with a space in it after
\* '=', and an ARG with an empty default
C19_SpacedValueAndEmptyDefault ==
    /\ fmtScanner = "dockerfile"
    /\ fmtI = 2
    /\ fmtLines = << <<"E","N","V"," ","A","=","x"," ","y">>, <<"A","R","G"," ","A","=">> >>
    /\ Len(fmtEnvVars) = 2
    /\ fmtEnvVars[1].value = <<"x"," ","y">>
    /\ fmtEnvVars[2].value = undefined

\* a placeholder token: its name, whether it has a default segment, the default
Token(name, hasDefault, default) ==
    [name |-> name, hasDefault |-> hasDefault, default |-> default]

Tokens ==
    { Token(n, FALSE, <<>>) : n \in { <<"A">>, <<"B">> } }
    \cup { Token(n, TRUE, d) : n \in { <<"A">>, <<"B">> }, d \in { <<>>, <<"x">> } }

\* the text of a token: ${NAME} or ${NAME:default}
TokenText(t) ==
    <<"$","{">> \o t.name \o (IF t.hasDefault THEN <<":">> \o t.default ELSE <<>>) \o <<"}">>

RECURSIVE TokensText(_)
TokensText(ts) == IF ts = <<>> THEN <<>> ELSE TokenText(Head(ts)) \o TokensText(Tail(ts))

\* the occurrence of line k described for a token
TokenOccurrence(t, k) ==
    EnvVar(t.name, File_c, k, L_properties, P_placeholder,
           IF t.hasDefault THEN t.default ELSE undefined,
           IF t.hasDefault THEN "properties" ELSE noSource,
           JsBool(t.hasDefault))

\* C20: a line of a property file yields one occurrence per token ${NAME} or
\* ${NAME:default}; with a default segment the occurrence has the text of
\* the segment as value, valueSource properties and isDefault true, without
\* one it has no value, no valueSource and isDefault false; the nested
\* ${A:${B:d}} yields A alone, its default cut at the first '}'.
C20_PlaceholderScanning ==
    fmtScanner = "properties" =>
        \A k \in FmtDone :
            /\ \A ts \in SeqsUpTo(Tokens, 2) :
                   fmtLines[k] = <<"a","=">> \o TokensText(ts) =>
                       FmtAt(k) = [j \in 1..Len(ts) |-> TokenOccurrence(ts[j], k)]
            /\ fmtLines[k] = <<"a","=","$","{","A",":","$","{","B",":","d","}","}">> =>
                   FmtAt(k) = <<TokenOccurrence(Token(<<"A">>, TRUE, <<"$","{","B",":","d">>), k)>>

-----------------------------------------------------------------------------
(* parseCheckId applied to check ids *)

MaxRest == 2   \* most hyphen-separated words after the language prefix of a rule id

\* what stands before the rule id in a check id: nothing, the dotted path of
\* the rules file, a path with a segment that holds a language prefix, a path
\* with a segment that holds `custom-`
CheckIdDirs == { <<>>, <<"r",".">>, <<"g","o","-","x",".">>, <<"c","u","s","t","o","m","-","r",".">> }

CheckIdLangs == { <<"g","o">>, <<"j","s">>, <<"p","y","t","h","o","n">>, <<"j","a","v","a">>, <<"p","r","o","p","e","r","t","i","e","s">> }

CheckIdWords == { <<"e","n","v">>, <<"d","j","a","n","g","o">>, <<"c","a","r","g","o">>, <<"j","a","v","a">>, <<"x">> }

CheckIdRests ==
    { Join(ws, <<"-">>) : ws \in UNION { [1..n -> CheckIdWords] : n \in 1..MaxRest } }

\* the check id the external tool reports for a rule
CheckIdOf(dir, lang, rest) == dir \o lang \o <<"-">> \o rest

InitCheckId ==
    /\ RecIdle /\ CmpIdle /\ SubIdle /\ ManIdle /\ FmtIdle /\ ScnIdle /\ RunIdle /\ PfIdle
    /\ idDir \in CheckIdDirs
    /\ idLang \in CheckIdLangs
    /\ idRest \in CheckIdRests
    /\ idParsed = [language |-> <<>>, pattern |-> <<>>]
    /\ idPc = "start"

ParseCheckId ==
    /\ idPc = "start"
    /\ idParsed' = parseCheckId(CheckIdOf(idDir, idLang, idRest))
    /\ idPc' = "done"
    /\ UNCHANGED <<idDir, idLang, idRest>>
    /\ UNCHANGED <<recVars, cmpVars, subVars, manVars, fmtVars, scnVars, runVars, pfVars>>

NextCheckId == ParseCheckId

SpecCheckId == InitCheckId /\ [][NextCheckId]_vars

\* the 0-based index at which the last occurrence of any known language
\* prefix starts in the id, -1 if none occurs
RECURSIVE GreatestPrefixIndex(_, _)
GreatestPrefixIndex(checkId, k) ==
    IF k > Len(langPrefixes) THEN -1
    ELSE LET idx  == LastIndexOf(checkId, langPrefixes[k])
             rest == GreatestPrefixIndex(checkId, k + 1)
         IN  IF idx > rest THEN idx ELSE rest

\* the known prefix that stands at the 0-based index idx of the id
PrefixAt(checkId, idx) ==
    CHOOSE p \in Range(langPrefixes) : StartsWithAt(checkId, p, idx)

\* the language of the table for a prefix token such as `js-`
LanguageOfPrefix(p) == langMap(Slice(p, 0, Len(p) - 1))

\* C21: for a check id without `custom-`, parseCheckId takes the occurrence of
\* a known language prefix that starts at the greatest index, returns the
\* language of that prefix and, as pattern, the hyphen-separated segments
\* after it joined with '.'; a check id with `custom-` gets language custom.
C21_LastPrefixOccurrenceDecides ==
    idPc = "done" =>
        LET checkId == CheckIdOf(idDir, idLang, idRest)
            idx     == GreatestPrefixIndex(checkId, 1)
            p       == PrefixAt(checkId, idx)
        IN  IF Includes(checkId, S_custom)
            THEN idParsed.language = <<"c","u","s","t","o","m">>
            ELSE idx # -1 =>
                     /\ idParsed.language = LanguageOfPrefix(p)
                     /\ idParsed.pattern =
                            Join(Split(SliceFrom(checkId, idx + Len(p)), <<"-">>), <<".">>)

\* C28: a check id whose rule id starts with a known language prefix keeps the
\* language of that prefix, whatever follows the prefix in the rule id.
C28_LeadingPrefixKeepsLanguage ==
    (idPc = "done" /\ idDir \in { <<>>, <<"r",".">> }) =>
        idParsed.language = langMap(idLang)

\* the value sides from which definition lines are put together
ComposeValues == { <<>>, <<"x">>, <<"$","{","B","}">>, <<"$","B">> }

\* a reference token: the name, in braces or bare
RefToken(name, braces) == [name |-> name, braces |-> braces]

RefTokens == { RefToken(n, b) : n \in { <<"A">>, <<"B">> }, b \in BOOLEAN }

RefText(t) == IF t.braces THEN <<"$","{">> \o t.name \o <<"}">> ELSE <<"$">> \o t.name

\* the texts of the tokens, a space before each
RECURSIVE RefsText(_)
RefsText(ts) == IF ts = <<>> THEN <<>> ELSE <<" ">> \o RefText(Head(ts)) \o RefsText(Tail(ts))

\* line k yields one occurrence, a definition of this name
OneDefinition(k, name) ==
    /\ Len(FmtAt(k)) = 1
    /\ FmtAt(k)[1].name = name
    /\ FmtAt(k)[1].pattern = P_envdef

\* C22: a line of a compose file of the definition shape (`- NAME=value` or
\* `NAME: value`) yields exactly one occurrence, of pattern
\* environment-definition, and no variable-reference even when the value
\* holds ${X} or $X; a line that is no definition yields one
\* variable-reference without a value per ${NAME} or $NAME token.
C22_DefinitionLineCountedOnce ==
    fmtScanner = "docker-compose" =>
        \A k \in FmtDone :
            /\ \A v \in ComposeValues :
                   /\ fmtLines[k] = <<" "," ","-"," ","A","=">> \o v => OneDefinition(k, <<"A">>)
                   /\ fmtLines[k] = <<" "," ","A",":">> \o (IF v = <<>> THEN v ELSE <<" ">> \o v) =>
                          OneDefinition(k, <<"A">>)
            /\ \A ts \in SeqsUpTo(RefTokens, 2) :
                   fmtLines[k] = <<" "," ","a",":">> \o RefsText(ts) =>
                       FmtAt(k) = [j \in 1..Len(ts) |->
                                      EnvVar(ts[j].name, File_c, k, L_compose, P_varref,
                                             undefined, noSource, noDefault)]

\* a compose file gone through whose two lines are a definition with a
\* reference in its value and a line with two references
C22_DefinitionWithReference ==
    /\ fmtScanner = "docker-compose"
    /\ fmtI = 2
    /\ fmtLines = << <<" "," ","-"," ","A","=","$","{","B","}">>, <<" "," ","a",":"," ","$","{","A","}"," ","$","B">> >>
    /\ Len(fmtEnvVars) = 3
    /\ fmtEnvVars[1].pattern = P_envdef
    /\ fmtEnvVars[3].pattern = P_varref

-----------------------------------------------------------------------------
(* Claims about scanConfigMap *)

Blank(line) == TrimStart(line) = <<>>

\* the line is an entry `KEY: m` with m a block indicator
IsBlockEntry(line) ==
    /\ KeyMatch(TrimStart(line)).matched
    /\ Trim(KeyMatch(TrimStart(line)).rest) \in BlockIndicators

\* the 1-based position of the first line after line i that is not blank and
\* indented less than two deeper than line i; past the end if there is none
BlockEnd(lines, i) ==
    LET ends == { j \in (i + 1)..Len(lines) :
                    ~Blank(lines[j]) /\ Indent(lines[j]) < Indent(lines[i]) + 2 }
    IN  IF ends = {} THEN Len(lines) + 1
        ELSE CHOOSE j \in ends : \A m \in ends : j <= m

\* the positions of the text lines of the block scalar of the entry at line i
BlockContent(lines, i) ==
    { j \in (i + 1)..(BlockEnd(lines, i) - 1) : ~Blank(lines[j]) }

\* their left-trimmed texts from position j on, a newline between them
RECURSIVE BlockTextFrom(_, _, _)
BlockTextFrom(lines, i, j) ==
    IF j >= BlockEnd(lines, i) THEN <<>>
    ELSE IF j \notin BlockContent(lines, i) THEN BlockTextFrom(lines, i, j + 1)
    ELSE LET rest == BlockTextFrom(lines, i, j + 1)
         IN  TrimStart(lines[j]) \o (IF rest = <<>> THEN <<>> ELSE <<"\n">> \o rest)

\* the value of the block scalar of the entry at line i, absent if it has no text
BlockText(lines, i) ==
    IF BlockContent(lines, i) = {} THEN undefined ELSE BlockTextFrom(lines, i, i + 1)

\* the occurrences scanConfigMap has emitted for block entries
BlockOccurrences ==
    { ev \in Range(subState.envVars) : IsBlockEntry(subLines[ev.line]) }

\* C23: the occurrence of a ConfigMap entry `KEY: m` with m one of |, >, |-,
\* >- and the key indented by k has as value the left-trimmed texts, joined
\* by newlines, of the following lines up to the first line that is not
\* blank and indented less than k+2, blank lines left out; without such a
\* text line it has no value.
C23_BlockScalarValue ==
    subScanner = "configmap" =>
        \A ev \in BlockOccurrences :
            /\ ev.value = BlockText(subLines, ev.line)
            /\ ev.value = undefined => ev.valueSource = noSource

\* a document gone through whose block scalar has two text lines
C23_TwoLineBlock ==
    /\ subScanner = "configmap"
    /\ subI = Len(subLines)
    /\ \E ev \in BlockOccurrences :
           /\ Cardinality(BlockContent(subLines, ev.line)) = 2
           /\ Includes(ev.value, <<"\n">>)

\* C27: a line that scanConfigMap has taken as a text line of the block
\* scalar of some key yields no occurrence of its own, even when it has the
\* shape `KEY: value`.
C27_BlockContentNotReread ==
    subScanner = "configmap" =>
        \A ev \in BlockOccurrences :
            \A j \in BlockContent(subLines, ev.line) :
                \A other \in Range(subState.envVars) : other.line # j

-----------------------------------------------------------------------------
(* Claims about scanK8sWorkload *)

WorkloadReads == subScanner = "workload" /\ subI < Len(subLines) /\ subI' = subI + 1

\* the line is `- name: NAME`, at any indentation
IsNameLine(line) == TrimStart(line) = <<"-"," ","n","a","m","e",":"," ","A">>

\* the line is a `value: ...` line
IsValueLine(line) == StartsWith(Trim(line), <<"v","a","l","u","e",":">>)

\* what a value line gives as value: the text after `value:`, without quotes
ValueLineText(line) == StripQuotes(Trim(SliceFrom(Trim(line), 6)))

\* the line after the one being read is a value line
ValueLineFollows ==
    subI + 2 <= Len(subLines) /\ IsValueLine(subLines[subI + 2])

\* C24: inside an env: block every line `- name: NAME` yields exactly one
\* occurrence, which has a value and valueSource k8s-deployment if and only
\* if the very next line of the document is a `value: ...` line.
C24_ValueLineAttachedIffNext ==
    [][ (/\ WorkloadReads
         /\ subState.inEnvSection
         /\ IsNameLine(subLines[subI + 1]))
        => /\ PushedOne
           /\ Pushed.name = <<"A">>
           /\ (Pushed.valueSource = "k8s-deployment") <=> ValueLineFollows
           /\ (Pushed.value # undefined) <=> ValueLineFollows ]_vars

\* C24, amended: inside an env: block every line `- name: NAME` yields
\* exactly one occurrence, which has a value and valueSource k8s-deployment
\* if and only if the very next line is a `value:` line whose value is not
\* empty; the value is that of the line. A value line further down, or one
\* with an empty value, leaves the occurrence with neither.
C24_NonEmptyValueLineAttachedIffNext ==
    [][ (/\ WorkloadReads
         /\ subState.inEnvSection
         /\ IsNameLine(subLines[subI + 1]))
        => /\ PushedOne
           /\ Pushed.name = <<"A">>
           /\ IF ValueLineFollows /\ ValueLineText(subLines[subI + 2]) # <<>>
              THEN /\ Pushed.value = ValueLineText(subLines[subI + 2])
                   /\ Pushed.valueSource = "k8s-deployment"
              ELSE /\ Pushed.value = undefined
                   /\ Pushed.valueSource = noSource ]_vars

\* a document gone through in which one entry has its value on the next
\* line and another has a value line only after a line in between
C24_ValueNextAndValueLater ==
    /\ subScanner = "workload"
    /\ subI = Len(subLines)
    /\ subLines = << <<" "," ","e","n","v",":">>, <<" "," ","-"," ","n","a","m","e",":"," ","A">>, <<"#"," ","c">>, <<" "," "," "," ","v","a","l","u","e",":"," ","x">> >>
    /\ Len(subState.envVars) = 1
    /\ subState.envVars[1].value = undefined

-----------------------------------------------------------------------------
(* Claims about the exit status of the comparison *)

\* C25: runCompare ends the process with exit code 1 whenever the added or
\* the removed list is non-empty, and completes with success when both are
\* empty, in the text output mode and in the --json output mode alike.
C25_CompareExitStatus ==
    cmpPc = "compared" =>
        IF cmpOut.added # <<>> \/ cmpOut.removed # <<>>
        THEN cmpExit = 1
        ELSE cmpExit = 0

-----------------------------------------------------------------------------
(* Claims about the identity key *)

\* C26: the deduplication treats two occurrences as duplicates only if their
\* name, file and line are all equal: every occurrence handed to
\* deduplicateResults, and every occurrence scan() builds from a finding,
\* has an occurrence of the same name, file and line among those retained.
C26_KeysNotConflated ==
    /\ recPc = "deduped" =>
           \A k \in 1..Len(recInput) :
               \E j \in 1..Len(recDeduped) : SameTriple(recInput[k], recDeduped[j])
    /\ recPc \in {"scanned", "deduped"} =>
           \A k \in 1..Len(recResults) :
               FilteredOut(recResults[k], recFilter)
               \/ \E j \in 1..Len(recScanned) :
                      SameTriple(ResultEnvVar(recResults[k]), recScanned[j])

-----------------------------------------------------------------------------
(* Claims about the names of the Dockerfile scanner *)

\* C30: every occurrence of the Dockerfile scanner has a name matching
\* [A-Z][A-Z0-9_]* case-sensitively; the case-insensitive matching applies
\* to the keyword ENV or ARG alone, so `env foo=bar` or `ARG version=1`
\* yields no occurrence with a lowercase name.
C30_DockerfileNamesUppercase ==
    fmtScanner = "dockerfile" =>
        \A k \in 1..Len(fmtEnvVars) : IsUpperName(fmtEnvVars[k].name)

-----------------------------------------------------------------------------
(* scanPropertyFiles over a directory tree *)

MaxPropFiles == 2
MaxPropLines == 1

\* the discovery patterns in the order of the list, each `**/<prefix>*<suffix>`
patterns == <<
    [prefix |-> <<"a","p","p","l","i","c","a","t","i","o","n">>, suffix |-> <<".","p","r","o","p","e","r","t","i","e","s">>],
    [prefix |-> <<"a","p","p","l","i","c","a","t","i","o","n">>, suffix |-> <<".","y","a","m","l">>],
    [prefix |-> <<"a","p","p","l","i","c","a","t","i","o","n">>, suffix |-> <<".","y","m","l">>],
    [prefix |-> <<"b","o","o","t","s","t","r","a","p">>, suffix |-> <<".","p","r","o","p","e","r","t","i","e","s">>],
    [prefix |-> <<"b","o","o","t","s","t","r","a","p">>, suffix |-> <<".","y","a","m","l">>],
    [prefix |-> <<"b","o","o","t","s","t","r","a","p">>, suffix |-> <<".","y","m","l">>],
    [prefix |-> <<>>, suffix |-> <<".","p","r","o","p","e","r","t","i","e","s">>] >>

\* glob of one pattern on the base name of a file: '*' stands for any run of
\* characters, and a leading '*' does not match a name that starts with '.'
GlobMatches(pattern, name) ==
    /\ Len(pattern.prefix) + Len(pattern.suffix) <= Len(name)
    /\ StartsWith(name, pattern.prefix)
    /\ EndsWith(name, pattern.suffix)
    /\ pattern.prefix = <<>> => Head(name) # "."

\* base names of the files of a tree
PropFileNames == {
    <<"a","p","p","l","i","c","a","t","i","o","n",".","p","r","o","p","e","r","t","i","e","s">>, <<"a","p","p","l","i","c","a","t","i","o","n","-","d","e","v",".","y","a","m","l">>, <<"b","o","o","t","s","t","r","a","p",".","y","m","l">>,
    <<"b","o","o","t","s","t","r","a","p",".","p","r","o","p","e","r","t","i","e","s">>, <<"x",".","p","r","o","p","e","r","t","i","e","s">>, <<".","p","r","o","p","e","r","t","i","e","s">>, <<"r","e","a","d","m","e",".","m","d">> }

\* contents of a file, as the lines content.split gives
PropFileContents ==
    UNION { [1..n -> { <<"a","=","$","{","A","}">>, <<"a","=","$","{","A",":","x","}","$","{","B","}">> }] : n \in 1..MaxPropLines }

\* the files of a tree outside the ignored directories, in the order glob
\* walks them
PropTrees ==
    { fs \in UNION { [1..n -> [name : PropFileNames, lines : PropFileContents]]
                     : n \in 0..MaxPropFiles } :
        \A i, j \in 1..Len(fs) : i # j => fs[i].name # fs[j].name }

RECURSIVE PropertyLinesFrom(_, _)
PropertyLinesFrom(file, i) ==
    IF i >= Len(file.lines) THEN <<>>
    ELSE PropertyLine(file.lines[i + 1], i, file.name) \o PropertyLinesFrom(file, i + 1)

\* scanPropertyFile on one file
scanPropertyFile(file) == PropertyLinesFrom(file, 0)

\* the occurrences of the files that one pattern finds, file after file
RECURSIVE ScanGlobbed(_, _, _)
ScanGlobbed(files, pattern, k) ==
    IF k > Len(files) THEN <<>>
    ELSE (IF GlobMatches(pattern, files[k].name) THEN scanPropertyFile(files[k])
          ELSE <<>>) \o ScanGlobbed(files, pattern, k + 1)

InitPropertyFiles ==
    /\ RecIdle /\ CmpIdle /\ SubIdle /\ ManIdle /\ FmtIdle /\ ScnIdle /\ RunIdle /\ IdIdle
    /\ pfFiles \in PropTrees
    /\ pfPattern = 0
    /\ pfEnvVars = <<>>

\* one turn of the loop over the patterns
ScanPattern ==
    /\ pfPattern < Len(patterns)
    /\ pfEnvVars' = pfEnvVars \o ScanGlobbed(pfFiles, patterns[pfPattern + 1], 1)
    /\ pfPattern' = pfPattern + 1
    /\ UNCHANGED pfFiles
    /\ UNCHANGED <<recVars, cmpVars, subVars, manVars, fmtVars, scnVars, runVars, idVars>>

NextPropertyFiles == ScanPattern

SpecPropertyFiles == InitPropertyFiles /\ [][NextPropertyFiles]_vars

\* the file is found by one pattern at least
Discovered(file) == \E k \in 1..Len(patterns) : GlobMatches(patterns[k], file.name)

\* the occurrences of the list that stand in the file
OccurrencesIn(envVars, file) == SelectSeq(envVars, LAMBDA ev : ev.file = file.name)

\* C29: the list that scanPropertyFiles returns holds exactly one occurrence
\* for each placeholder token of each discovered file; a file that more than
\* one discovery pattern matches contributes its occurrences once.
C29_EachFileScannedOnce ==
    pfPattern = Len(patterns) =>
        \A k \in 1..Len(pfFiles) :
            Discovered(pfFiles[k]) =>
                OccurrencesIn(pfEnvVars, pfFiles[k]) = scanPropertyFile(pfFiles[k])

====
